---- MODULE Spec2Model ----
(***************************************************************************)
(* Inventory manager (shoesmanager): the item store, the barcode side      *)
(* index, the session/transaction boundary of the front-ends, the CSV      *)
(* import/export services and the search query, as state machines.         *)
(*                                                                         *)
(* Text is a sequence of one-character strings; Python's None for a text   *)
(* field is the value None below; an absent date is NoDate.                *)
(***************************************************************************)
EXTENDS Integers, Sequences, FiniteSets, TLC

\* ------------------------------------------------------------------ bounds
MaxItems == 2
MaxDate == 2
MaxRows == 2
MaxLimit == 2
MaxTime == 2

\* --------------------------------------------------------------- constants
None == <<"NONE">>
NoDate == 0
NoPrice == -1000
\* the 'N/A' row number of an error entry made for a failed batch
RowNA == 0

Dates == 1..MaxDate
OptDates == {NoDate} \cup Dates
Ids == 1..MaxItems

\* ------------------------------------------------------------ text helpers
Range(seq) == {seq[k] : k \in 1..Len(seq)}

RECURSIVE lstrip(_)
lstrip(s) == IF s = <<>> THEN s
             ELSE IF Head(s) = " " THEN lstrip(Tail(s)) ELSE s

RECURSIVE rstrip(_)
rstrip(s) == IF s = <<>> THEN s
             ELSE IF s[Len(s)] = " " THEN rstrip(SubSeq(s, 1, Len(s) - 1)) ELSE s

\* str.strip()
strip(s) == rstrip(lstrip(s))

\* Python truthiness of an Optional[str]
Truthy(v) == v # None /\ v # <<>>

\* ------------------------------------------------------- pydantic schemas
\* the optional barcode text of an item, of its schema and of a search query, which
\* repository.py reads as item_data.barcode, InventoryItem.barcode and query.barcode
BarcodeColumn == [barcode |-> None]

\* a row of the barcodes table, which repository.py builds as Barcode(barcode=...,
\* model_name=..., name=...)
Barcode(barcode, model_name, name) ==
    [barcode |-> barcode, model_name |-> model_name, name |-> name]

RequiredText == {"location", "model_name", "name", "vendor"}

\* InventoryItemBase.validate_required_fields, after Field(min_length=1)
SchemaRequiredOk(v) == v # None /\ Len(v) >= 1 /\ strip(v) # <<>>

\* InventoryItemBase.validate_size
NoneIfEmpty(stripped) == IF stripped # <<>> THEN stripped ELSE None

SchemaSize(v) == IF v # None THEN NoneIfEmpty(strip(v)) ELSE v

\* InventoryItemBase.validate_dates
SchemaDatesOk(purchase_date, sale_date) ==
    ~ (purchase_date # NoDate /\ sale_date # NoDate /\ sale_date < purchase_date)

\* InventoryItemCreate(**raw): ok = FALSE stands for pydantic's ValidationError
InventoryItemCreate(raw) ==
    LET ok == /\ \A f \in RequiredText : SchemaRequiredOk(raw[f])
              /\ raw.purchase_date # NoDate
              /\ raw.price >= 0
              /\ SchemaDatesOk(raw.purchase_date, raw.sale_date)
    IN  [ok |-> ok,
         data |-> IF ok
                  THEN [raw EXCEPT !.location = strip(@), !.model_name = strip(@),
                                   !.name = strip(@), !.vendor = strip(@),
                                   !.size = SchemaSize(@)]
                  ELSE raw]

\* the field the ValidationError of InventoryItemCreate(**raw) names first: the
\* errors of the fields come in field order; the error of the model validator
\* validate_dates has no field of its own and speaks of the sale date
ValidationErrorField(raw) ==
    IF ~ SchemaRequiredOk(raw.location) THEN "location"
    ELSE IF raw.purchase_date = NoDate THEN "purchase_date"
    ELSE IF ~ SchemaRequiredOk(raw.model_name) THEN "model_name"
    ELSE IF ~ SchemaRequiredOk(raw.name) THEN "name"
    ELSE IF ~ SchemaRequiredOk(raw.vendor) THEN "vendor"
    ELSE IF raw.price < 0 THEN "price"
    ELSE IF ~ SchemaDatesOk(raw.purchase_date, raw.sale_date) THEN "sale_date"
    ELSE ""

\* ------------------------------------------------------------- ORM model
\* keyword order of InventoryItem(**item_data.dict()) and of update_dict
FieldOrder == <<"location", "purchase_date", "sale_date", "model_name", "name",
                "size", "barcode", "vendor", "price", "notes">>

\* a freshly constructed InventoryItem: every attribute still unset
BlankItem == BarcodeColumn @@
             [id |-> 0, location |-> None, purchase_date |-> NoDate, sale_date |-> NoDate,
              model_name |-> None, name |-> None, size |-> None,
              vendor |-> None, price |-> 0, notes |-> None, created_at |-> 0]

\* InventoryItem.validate_price
validate_price(obj, price) == [ok |-> ~ (price # NoPrice /\ price < 0), value |-> price]

\* validate_dates that also refuses a sale on the day of purchase
validate_dates_strict(obj, key, date_value) ==
    [ok |-> ~ (key = "sale_date" /\ date_value # NoDate
               /\ obj.purchase_date # NoDate /\ date_value <= obj.purchase_date),
     value |-> date_value]

\* InventoryItem.validate_dates: only the sale_date key is checked
validate_dates(obj, key, date_value) ==
    [ok |-> ~ (key = "sale_date" /\ date_value # NoDate
               /\ obj.purchase_date # NoDate /\ date_value < obj.purchase_date),
     value |-> date_value]

\* InventoryItem.validate_required_fields
Stripped(value, stripped) ==
    IF ~ Truthy(value) \/ stripped = <<>>
    THEN [ok |-> FALSE, value |-> value]
    ELSE [ok |-> TRUE, value |-> stripped]

validate_required_fields(obj, value) ==
    Stripped(value, IF value = None THEN None ELSE strip(value))

\* a validate_size that returns nothing
validate_size_no_return(obj, size) == [ok |-> TRUE, value |-> None]

\* InventoryItem.validate_size
validate_size(obj, size) ==
    [ok |-> TRUE, value |-> IF size # None THEN NoneIfEmpty(strip(size)) ELSE size]

\* setattr(obj, key, value) through the @validates hooks; ok = FALSE is ValueError
Assign(obj, key, v) == [ok |-> v.ok, obj |-> IF v.ok THEN [obj EXCEPT ![key] = v.value] ELSE obj]

\* a setattr that runs no validator
SetAttrUnvalidated(obj, key, value) == Assign(obj, key, [ok |-> TRUE, value |-> value])

\* setattr(obj, key, value) on an InventoryItem: the @validates hook of the column runs
SetAttr(obj, key, value) ==
    Assign(obj, key,
           CASE key = "price" -> validate_price(obj, value)
             [] key \in {"purchase_date", "sale_date"} -> validate_dates(obj, key, value)
             [] key \in RequiredText -> validate_required_fields(obj, value)
             [] key = "size" -> validate_size(obj, value)
             [] OTHER -> [ok |-> TRUE, value |-> value])

\* setattr for every key of `data` that is in `keys`, in FieldOrder order
RECURSIVE SetAttrs(_, _, _, _)
SetAttrsNext(r, data, keys, i) == IF r.ok THEN SetAttrs(r.obj, data, keys, i + 1) ELSE r

SetAttrs(obj, data, keys, i) ==
    IF i > Len(FieldOrder) THEN [ok |-> TRUE, obj |-> obj]
    ELSE IF FieldOrder[i] \notin keys THEN SetAttrs(obj, data, keys, i + 1)
    ELSE SetAttrsNext(SetAttr(obj, FieldOrder[i], data[FieldOrder[i]]), data, keys, i)

\* ------------------------------------------------------------ repository
\* A session S is the store as one SQLAlchemy session sees it:
\*   items    : id -> row of inventory_items
\*   barcodes : rows of the barcodes table, in insertion order
\*   next_id  : number of primary keys handed out so far (uuid4 is never reused)
\*   now      : func.now()
\*   db_ok    : whether the store accepts the statements of a flush
Raise(S, e) == [S |-> S, ret |-> FALSE, ids |-> <<>>, exc |-> e]
Return(S, v, ids) == [S |-> S, ret |-> v, ids |-> ids, exc |-> "none"]

\* session.flush() of a row: the nullable=False columns of InventoryItem
Flushable(obj) ==
    /\ \A f \in RequiredText : obj[f] # None
    /\ obj.purchase_date # NoDate
    /\ obj.price # NoPrice

\* InventoryRepository.get_by_id
get_by_id(S, item_id) ==
    IF item_id \in DOMAIN S.items THEN <<S.items[item_id]>> ELSE <<>>

\* InventoryRepository.create
Add(S, c, id) ==
    IF ~ c.ok THEN Raise(S, "ValueError")
    ELSE IF ~ S.db_ok THEN Raise(S, "SQLAlchemyError")
    ELSE Return([S EXCEPT !.items = (id :> [c.obj EXCEPT !.id = id, !.created_at = S.now]) @@ @,
                          !.next_id = id], TRUE, <<id>>)

create(S, item_data) ==
    Add(S, SetAttrs(BlankItem, item_data, DOMAIN item_data, 1), S.next_id + 1)

\* InventoryItemUpdate(**raw) over the fields the caller set: ok = FALSE is ValidationError
InventoryItemUpdate(raw) ==
    LET has(f) == f \in DOMAIN raw /\ raw[f] # None
        ok == /\ \A f \in RequiredText : has(f) => (Len(raw[f]) >= 1 /\ strip(raw[f]) # <<>>)
              /\ (("price" \in DOMAIN raw /\ raw.price # NoPrice) => raw.price >= 0)
    IN  [ok |-> ok,
         data |-> [f \in DOMAIN raw |->
                     IF f \in RequiredText /\ has(f) THEN strip(raw[f])
                     ELSE IF f = "size" THEN SchemaSize(raw[f])
                     ELSE raw[f]]]

\* a flush into a table whose columns all accept NULL
FlushNullable(S, item_id, r) ==
    IF ~ r.ok THEN Raise(S, "ValueError")
    ELSE IF ~ S.db_ok THEN Raise(S, "SQLAlchemyError")
    ELSE Return([S EXCEPT !.items[item_id] = r.obj], TRUE, <<item_id>>)

\* InventoryRepository.update, the flush of the changed row
Flush(S, item_id, r) ==
    IF ~ r.ok THEN Raise(S, "ValueError")
    ELSE IF ~ S.db_ok \/ ~ Flushable(r.obj) THEN Raise(S, "SQLAlchemyError")
    ELSE Return([S EXCEPT !.items[item_id] = r.obj], TRUE, <<item_id>>)

\* an update without the check for a missing row: setattr on None raises
update_unchecked(S, item_id, update_data) ==
    IF item_id \notin DOMAIN S.items THEN Raise(S, "AttributeError")
    ELSE Flush(S, item_id, SetAttrs(get_by_id(S, item_id)[1], update_data, DOMAIN update_data, 1))

\* InventoryRepository.update
update(S, item_id, update_data) ==
    IF item_id \notin DOMAIN S.items THEN Return(S, FALSE, <<>>)
    ELSE Flush(S, item_id, SetAttrs(get_by_id(S, item_id)[1], update_data, DOMAIN update_data, 1))

\* a delete that also removes the barcode record of the deleted item
delete_cascade(S, item_id) ==
    IF get_by_id(S, item_id) = <<>> THEN Return(S, FALSE, <<>>)
    ELSE Return([S EXCEPT !.items = [i \in DOMAIN @ \ {item_id} |-> @[i]],
                          !.barcodes = SelectSeq(@, LAMBDA r :
                                           r.barcode # S.items[item_id].barcode)],
                TRUE, <<item_id>>)

\* InventoryRepository.delete
delete(S, item_id) ==
    IF get_by_id(S, item_id) = <<>> THEN Return(S, FALSE, <<>>)
    ELSE Return([S EXCEPT !.items = [i \in DOMAIN @ \ {item_id} |-> @[i]]], TRUE, <<item_id>>)

\* InventoryRepository.bulk_create: the items are built, added and flushed together
RECURSIVE BuildAll(_, _, _, _)
BuildNext(S, items_data, i, acc, c) ==
    IF ~ c.ok THEN [ok |-> FALSE, objs |-> acc]
    ELSE BuildAll(S, items_data, i + 1,
                  Append(acc, [c.obj EXCEPT !.id = S.next_id + i, !.created_at = S.now]))

BuildAll(S, items_data, i, acc) ==
    IF i > Len(items_data) THEN [ok |-> TRUE, objs |-> acc]
    ELSE BuildNext(S, items_data, i, acc,
                   SetAttrs(BlankItem, items_data[i], DOMAIN items_data[i], 1))

AddAll(S, b, n) ==
    IF ~ b.ok THEN Raise(S, "ValueError")
    ELSE IF ~ S.db_ok THEN Raise(S, "SQLAlchemyError")
    ELSE Return([S EXCEPT !.items = [id \in {S.next_id + i : i \in 1..n} |->
                                        b.objs[id - S.next_id]] @@ @,
                          !.next_id = @ + n],
                TRUE, [i \in 1..n |-> S.next_id + i])

bulk_create(S, items_data) == AddAll(S, BuildAll(S, items_data, 1, <<>>), Len(items_data))

\* InventoryRepository.bulk_delete
bulk_delete(S, item_ids) ==
    Return([S EXCEPT !.items = [i \in DOMAIN @ \ item_ids |-> @[i]]],
           Cardinality(DOMAIN S.items \cap item_ids), <<>>)

\* query(Barcode).filter(Barcode.barcode == barcode).first(): index of the row, 0 if none
RECURSIVE FirstBarcodeRow(_, _, _)
FirstBarcodeRow(rows, barcode, i) ==
    IF i > Len(rows) THEN 0
    ELSE IF rows[i].barcode = barcode THEN i ELSE FirstBarcodeRow(rows, barcode, i + 1)

\* create_or_update_barcode that inserts without looking for an existing row
UpsertInsert(S, existing_barcode, barcode, model_name, name) ==
    IF ~ S.db_ok THEN Raise(S, "SQLAlchemyError")
    ELSE Return([S EXCEPT !.barcodes = Append(@, Barcode(barcode, model_name, name))], TRUE, <<>>)

\* InventoryRepository.create_or_update_barcode
Upsert(S, existing_barcode, barcode, model_name, name) ==
    IF ~ S.db_ok THEN Raise(S, "SQLAlchemyError")
    ELSE IF existing_barcode # 0
    THEN Return([S EXCEPT !.barcodes[existing_barcode].model_name = model_name,
                          !.barcodes[existing_barcode].name = name], TRUE, <<>>)
    ELSE Return([S EXCEPT !.barcodes = Append(@, Barcode(barcode, model_name, name))], TRUE, <<>>)

create_or_update_barcode(S, barcode, model_name, name) ==
    Upsert(S, FirstBarcodeRow(S.barcodes, barcode, 1), barcode, model_name, name)

\* InventoryRepository.get_barcode_info: the row, or <<>> for None
RowOrNone(rows, i) == IF i = 0 THEN <<>> ELSE <<rows[i]>>

get_barcode_info(S, barcode) == RowOrNone(S.barcodes, FirstBarcodeRow(S.barcodes, barcode, 1))

\* InventoryRepository.create_with_barcode_update
ReturnItem(b, db_item) == IF b.exc # "none" THEN b ELSE Return(b.S, TRUE, db_item.ids)

WithBarcode(db_item, item_data) ==
    IF db_item.exc # "none" THEN db_item
    ELSE IF Truthy(item_data.barcode)
    THEN ReturnItem(create_or_update_barcode(db_item.S, item_data.barcode,
                                             item_data.model_name, item_data.name), db_item)
    ELSE db_item

create_with_barcode_update(S, item_data) == WithBarcode(create(S, item_data), item_data)

\* sell_item without its already-sold check
SellAnyway(S, item_id, db_item, sale_date) ==
    IF db_item = <<>> THEN Return(S, FALSE, <<>>)
    ELSE Flush(S, item_id, SetAttr(db_item[1], "sale_date", sale_date))

\* InventoryRepository.sell_item
Sell(S, item_id, db_item, sale_date) ==
    IF db_item = <<>> THEN Return(S, FALSE, <<>>)
    ELSE IF db_item[1].sale_date # NoDate THEN Return(S, FALSE, <<>>)
    ELSE Flush(S, item_id, SetAttr(db_item[1], "sale_date", sale_date))

sell_item(S, item_id, sale_date) == Sell(S, item_id, get_by_id(S, item_id), sale_date)

\* ------------------------------------------------------------ CSV cells
\* A CSV file is a sequence of rows, a row a sequence of cells, a cell a text.
\* Multi-character tokens stand for fixed pieces of text (a header word, the
\* year-and-month part of a date, the ".00" of a price).
DigitChar == <<"0", "1", "2", "3", "4", "5", "6", "7", "8", "9">>
DigitValue(c) == CHOOSE n \in 0..9 : DigitChar[n + 1] = c
IsDigit(c) == \E n \in 0..9 : DigitChar[n + 1] = c

\* date.strftime('%Y-%m-%d') of the d-th day of January 2024
DateStr(d) == <<"2024-01-0", DigitChar[d + 1]>>

\* str(Decimal) of a price column value
PriceStr(p) == IF p < 0 THEN <<"-", DigitChar[(0 - p) + 1], ".00">>
               ELSE <<DigitChar[p + 1], ".00">>

\* datetime.strptime(value, fmt).date() over ['%Y-%m-%d', '%Y/%m/%d', '%m/%d/%Y', '%d/%m/%Y']
ParseDate(value) ==
    IF Len(value) = 2 /\ value[1] \in {"2024-01-0", "2024/01/0"} /\ IsDigit(value[2])
          /\ DigitValue(value[2]) >= 1
    THEN [ok |-> TRUE, value |-> DigitValue(value[2])]
    ELSE IF Len(value) = 3 /\ value[1] = "01/0" /\ IsDigit(value[2]) /\ value[3] = "/2024"
          /\ DigitValue(value[2]) >= 1
    THEN [ok |-> TRUE, value |-> DigitValue(value[2])]
    ELSE [ok |-> FALSE, value |-> NoDate]

\* value.replace(',', '').replace(<won sign>, '').replace(<won word>, ''); the two
\* Korean currency marks are written "KRW" and "won", Korean header words romanised
RemoveSymbols(value) == SelectSeq(value, LAMBDA c : c \notin {",", "KRW", "won"})

\* Decimal(clean_value)
ParseDecimal(clean_value) ==
    LET neg == clean_value # <<>> /\ Head(clean_value) = "-"
        body == IF neg THEN Tail(clean_value) ELSE clean_value
        int == IF body # <<>> /\ body[Len(body)] = ".00"
               THEN SubSeq(body, 1, Len(body) - 1) ELSE body
    IN  IF Len(int) = 1 /\ IsDigit(int[1])
        THEN [ok |-> TRUE, value |-> IF neg THEN 0 - DigitValue(int[1]) ELSE DigitValue(int[1])]
        ELSE [ok |-> FALSE, value |-> NoPrice]

\* ---------------------------------------------------------- import service
ImportRequired == {"location", "purchase_date", "model_name", "name", "vendor", "price"}

\* iteration order of CSVImportService.COLUMN_MAPPING
ColumnOrder == <<"location", "purchase_date", "sale_date", "model_name", "name",
                 "size", "vendor", "price", "notes">>

\* CSVImportService.COLUMN_MAPPING
COLUMN_MAPPING(db_column) ==
    CASE db_column = "location" -> {"location", "wichi", "bogwan_wichi"}
      [] db_column = "purchase_date" -> {"purchase_date", "purchase date", "gumaeil", "gumae_naljja"}
      [] db_column = "sale_date" -> {"sale_date", "sale date", "panmaeil", "panmae_naljja"}
      [] db_column = "model_name" -> {"model_name", "model name", "model", "modelmyeong", "model_ko"}
      [] db_column = "name" -> {"name", "product_name", "product name", "jepummyeong", "ireum", "sangpummyeong"}
      [] db_column = "size" -> {"size", "saijeu", "keugi"}
      [] db_column = "vendor" -> {"vendor", "gumaecheo", "gonggeup_eopche", "supplier"}
      [] db_column = "price" -> {"price", "gagyeok", "danga"}
      [] db_column = "notes" -> {"notes", "memo", "memo_ko", "bigo", "seolmyeong"}

\* str.lower() of a header word
Lower(w) == CASE w = "ID" -> "id" [] w = "Price" -> "price" [] w = "PRICE" -> "price"
              [] w = "Name" -> "name" [] OTHER -> w

\* header.strip().lower() as one word ("" when the cell is not a single word)
OneWord(stripped) == IF Len(stripped) = 1 THEN Lower(stripped[1]) ELSE ""

NormHeader(header) == OneWord(strip(header))

\* index of the first header bound to db_column, 0 if none
RECURSIVE FirstHeader(_, _, _)
FirstHeader(headers, db_column, i) ==
    IF i > Len(headers) THEN 0
    ELSE IF NormHeader(headers[i]) \in COLUMN_MAPPING(db_column) THEN i
    ELSE FirstHeader(headers, db_column, i + 1)

\* CSVImportService._map_columns
HeaderIndex(headers) == [c \in Range(ColumnOrder) |-> FirstHeader(headers, c, 1)]

Bound(index) == {c \in DOMAIN index : index[c] # 0}

\* a mapping that is returned without the check for missing required columns
MappedColumnsUnchecked(index, bound) ==
    [ok |-> TRUE,
     column_mapping |-> [c \in bound |-> index[c]],
     missing_columns |-> {}]

MappedColumns(index, bound) ==
    [ok |-> ImportRequired \ bound = {},
     column_mapping |-> [c \in bound |-> index[c]],
     missing_columns |-> ImportRequired \ bound]

BoundColumns(index) == MappedColumns(index, Bound(index))

map_columns(headers) == BoundColumns(HeaderIndex(headers))

\* CSVImportService._parse_field: ok = FALSE is the ValueError it raises
Converted(c, error) == [ok |-> c.ok, value |-> c.value, error |-> error]

parse_field(field, value) ==
    IF value = <<>>
    THEN (IF field \in ImportRequired
          THEN [ok |-> FALSE, value |-> None, error |-> "required field is empty"]
          ELSE [ok |-> TRUE, value |-> IF field = "sale_date" THEN NoDate ELSE None,
                error |-> ""])
    ELSE IF field \in {"purchase_date", "sale_date"}
    THEN Converted(ParseDate(value), "date format")
    ELSE IF field = "price"
    THEN Converted(ParseDecimal(RemoveSymbols(value)), "price format")
    ELSE [ok |-> TRUE, value |-> strip(value), error |-> ""]

\* InventoryItemCreate's field values before any keyword is given
SchemaDefaults == BarcodeColumn @@
                  [location |-> None, purchase_date |-> NoDate, sale_date |-> NoDate,
                   model_name |-> None, name |-> None, size |-> None,
                   vendor |-> None, price |-> NoPrice, notes |-> None]

\* the loop of _parse_row over column_mapping.items()
RECURSIVE ParseFields(_, _, _, _)
FieldParsed(row, column_mapping, data, k, f) ==
    IF f.ok
    THEN ParseFields(row, column_mapping, [data EXCEPT ![ColumnOrder[k]] = f.value], k + 1)
    ELSE [ok |-> FALSE, data |-> data, field |-> ColumnOrder[k], error |-> f.error]

ParseFields(row, column_mapping, data, k) ==
    IF k > Len(ColumnOrder) THEN [ok |-> TRUE, data |-> data, field |-> "", error |-> ""]
    ELSE IF ColumnOrder[k] \notin DOMAIN column_mapping
    THEN ParseFields(row, column_mapping, data, k + 1)
    ELSE IF column_mapping[ColumnOrder[k]] <= Len(row)
    THEN FieldParsed(row, column_mapping, data, k,
                     parse_field(ColumnOrder[k], strip(row[column_mapping[ColumnOrder[k]]])))
    ELSE IF ColumnOrder[k] \in ImportRequired
    THEN [ok |-> FALSE, data |-> data, field |-> ColumnOrder[k],
          error |-> "required field is missing"]
    ELSE ParseFields(row, column_mapping, data, k + 1)

\* CSVImportService._parse_row; has_mapping = FALSE is column_mapping = None
Validated(item) ==
    IF ~ item.ok
    THEN [ok |-> FALSE, item |-> SchemaDefaults, field |-> ValidationErrorField(item.data),
          error |-> "validation"]
    ELSE [ok |-> TRUE, item |-> item.data, field |-> "", error |-> ""]

RowParsed(p) ==
    IF ~ p.ok
    THEN [ok |-> FALSE, item |-> SchemaDefaults, field |-> p.field, error |-> p.error]
    ELSE Validated(InventoryItemCreate(p.data))

parse_row(row, column_mapping, has_mapping) ==
    IF ~ has_mapping
    THEN [ok |-> FALSE, item |-> SchemaDefaults, field |-> "", error |-> "no column mapping"]
    ELSE RowParsed(ParseFields(row, column_mapping, SchemaDefaults, 1))

\* one turn of the row loop of import_from_csv
Collect(acc, r, row_index, row) ==
    IF r.ok
    THEN [acc EXCEPT !.valid_items = Append(@, r.item), !.valid_rows = Append(@, row_index)]
    ELSE [acc EXCEPT !.errors = Append(@, [row |-> row_index, data |-> row,
                                           error |-> <<r.field, r.error>>])]

RECURSIVE ParseRows(_, _, _, _, _, _)
\* a row loop that a failing row ends
ParseRowsAborting(rows, column_mapping, has_mapping, first_index, i, acc) ==
    IF i > Len(rows) \/ acc.errors # <<>> THEN acc
    ELSE ParseRows(rows, column_mapping, has_mapping, first_index, i + 1,
                   Collect(acc, parse_row(rows[i], column_mapping, has_mapping),
                           first_index + i - 1, rows[i]))

\* the row loop of import_from_csv: one parse per row, failures collected
ParseRows(rows, column_mapping, has_mapping, first_index, i, acc) ==
    IF i > Len(rows) THEN acc
    ELSE ParseRows(rows, column_mapping, has_mapping, first_index, i + 1,
                   Collect(acc, parse_row(rows[i], column_mapping, has_mapping),
                           first_index + i - 1, rows[i]))

NothingParsed == [valid_items |-> <<>>, valid_rows |-> <<>>, errors |-> <<>>]

\* the ImportResult built at the end of import_from_csv, with what the call did on
\* the way: the rows given to _parse_row, whether _create_error_file wrote a file
ImportResult(S, success_count, errors, parsed, fs_ok) ==
    [S |-> S, exc |-> "none",
     result |-> [success_count |-> success_count,
                 error_count |-> Len(errors),
                 errors |-> errors,
                 error_file_path |-> IF errors # <<>> /\ fs_ok THEN "import_errors.csv"
                                     ELSE "None"],
     parsed |-> parsed.valid_rows,
     missing |-> {},
     rows_parsed |-> Len(parsed.valid_rows) + Len(parsed.errors),
     error_file |-> errors # <<>> /\ fs_ok]

\* a failed batch whose rows are not turned into error entries
StoredUnreported(S, parsed, b, fs_ok) ==
    IF b.exc = "none"
    THEN ImportResult(b.S, Len(b.ids), parsed.errors, parsed, fs_ok)
    ELSE ImportResult(S, 0, parsed.errors, parsed, fs_ok)

\* the try/except around bulk_create: a failed batch turns every row of it into an error
Stored(S, parsed, b, fs_ok) ==
    IF b.exc = "none"
    THEN ImportResult(b.S, Len(b.ids), parsed.errors, parsed, fs_ok)
    ELSE ImportResult(S, 0,
                      parsed.errors \o
                      [k \in 1..Len(parsed.valid_items) |->
                          [row |-> RowNA, data |-> parsed.valid_items[k],
                           error |-> <<"", "database">>]],
                      parsed, fs_ok)

Parsed(S, parsed, fs_ok) ==
    IF parsed.valid_items # <<>>
    THEN Stored(S, parsed, bulk_create(S, parsed.valid_items), fs_ok)
    ELSE ImportResult(S, 0, parsed.errors, parsed, fs_ok)

Mapped(S, data_rows, m, fs_ok) ==
    IF ~ m.ok
    THEN [S |-> S, exc |-> "ValueError: missing columns", result |-> <<>>, parsed |-> <<>>,
          missing |-> m.missing_columns, rows_parsed |-> 0, error_file |-> FALSE]
    ELSE Parsed(S, ParseRows(data_rows, m.column_mapping, TRUE, 2, 1, NothingParsed), fs_ok)

\* an import that takes the first row for a header whatever has_header says
import_from_csv_first_row_header(S, rows, has_header, fs_ok) ==
    IF rows = <<>>
    THEN [S |-> S, exc |-> "ValueError: empty", result |-> <<>>, parsed |-> <<>>,
          missing |-> {}, rows_parsed |-> 0, error_file |-> FALSE]
    ELSE Mapped(S, Tail(rows), map_columns(rows[1]), fs_ok)

\* CSVImportService.import_from_csv on the decoded rows of the file
import_from_csv(S, rows, has_header, fs_ok) ==
    IF rows = <<>>
    THEN [S |-> S, exc |-> "ValueError: empty", result |-> <<>>, parsed |-> <<>>,
          missing |-> {}, rows_parsed |-> 0, error_file |-> FALSE]
    ELSE IF has_header
    THEN Mapped(S, Tail(rows), map_columns(rows[1]), fs_ok)
    ELSE Parsed(S, ParseRows(rows, <<>>, FALSE, 1, 1, NothingParsed), fs_ok)

\* ------------------------------------------------------------------ search
\* SearchQuery() with every field at its default
DefaultLimit == 100
ExportLimit == 10000
SearchQuery == BarcodeColumn @@
               [keyword |-> None, location |-> None, model_name |-> None, name |-> None,
                vendor |-> None, size |-> None,
                purchase_date_from |-> NoDate, purchase_date_to |-> NoDate,
                sale_date_from |-> NoDate, sale_date_to |-> NoDate,
                price_min |-> NoPrice, price_max |-> NoPrice,
                sort_by |-> "created_at", sort_desc |-> TRUE,
                limit |-> DefaultLimit, offset |-> 0]

\* Python truthiness of an Optional[Decimal]: None and Decimal('0') are falsy
TruthyDecimal(d) == d # NoPrice /\ d # 0

\* SearchQuery.validate_date_ranges: TRUE when no ValueError is raised
validate_date_ranges(self) ==
    /\ ~ (/\ self.purchase_date_from # NoDate /\ self.purchase_date_to # NoDate
          /\ self.purchase_date_from > self.purchase_date_to)
    /\ ~ (/\ self.sale_date_from # NoDate /\ self.sale_date_to # NoDate
          /\ self.sale_date_from > self.sale_date_to)
    /\ ~ (/\ TruthyDecimal(self.price_min) /\ TruthyDecimal(self.price_max)
          /\ self.price_min > self.price_max)

\* the Literal type of SearchQuery.sort_by
SortWhitelist == {"id", "location", "purchase_date", "sale_date", "model_name", "name",
                  "size", "vendor", "price", "created_at"}

\* SearchQuery(**raw): the Field constraints, then the model validator
SearchQueryOk(raw) ==
    /\ raw.sort_by \in SortWhitelist
    /\ raw.price_min # NoPrice => raw.price_min >= 0
    /\ raw.price_max # NoPrice => raw.price_max >= 0
    /\ raw.limit >= 1 /\ raw.limit <= 10000
    /\ raw.offset >= 0
    /\ validate_date_ranges(raw)

\* SQL LIKE of a text against a pattern: "%" matches any run, "_" any one character
RECURSIVE LikeMatch(_, _)
LikeMatch(pattern, text) ==
    IF pattern = <<>> THEN text = <<>>
    ELSE IF Head(pattern) = "%"
    THEN \E k \in 0..Len(text) : LikeMatch(Tail(pattern), SubSeq(text, k + 1, Len(text)))
    ELSE /\ text # <<>>
         /\ (Head(pattern) = "_" \/ Head(pattern) = Head(text))
         /\ LikeMatch(Tail(pattern), Tail(text))

\* column.like(f"%{term}%"); a NULL column never matches
Like(column, term) == column # None /\ LikeMatch(<<"%">> \o term \o <<"%">>, column)

\* the keyword filter of search: or_ over name, model_name, vendor, notes
KeywordFilter(item, keyword) ==
    \/ Like(item.name, keyword)
    \/ Like(item.model_name, keyword)
    \/ Like(item.vendor, keyword)
    \/ Like(item.notes, keyword)

\* and_(*filters) of search on one row
Filters(item, query) ==
    /\ Truthy(query.keyword) => KeywordFilter(item, query.keyword)
    /\ Truthy(query.location) => Like(item.location, query.location)
    /\ Truthy(query.model_name) => Like(item.model_name, query.model_name)
    /\ Truthy(query.name) => Like(item.name, query.name)
    /\ Truthy(query.vendor) => Like(item.vendor, query.vendor)
    /\ Truthy(query.size) => Like(item.size, query.size)
    /\ Truthy(query.barcode) => Like(item.barcode, query.barcode)
    /\ query.purchase_date_from # NoDate => item.purchase_date >= query.purchase_date_from
    /\ query.purchase_date_to # NoDate => item.purchase_date <= query.purchase_date_to
    /\ query.sale_date_from # NoDate =>
           (item.sale_date # NoDate /\ item.sale_date >= query.sale_date_from)
    /\ query.sale_date_to # NoDate =>
           (item.sale_date # NoDate /\ item.sale_date <= query.sale_date_to)
    /\ query.price_min # NoPrice => item.price >= query.price_min
    /\ query.price_max # NoPrice => item.price <= query.price_max

\* sort_column = getattr(InventoryItem, query.sort_by): the value of the column in a row
SortKey(item, sort_by) == item[sort_by]

\* the text columns among the sort columns
TextColumns == {"location", "model_name", "name", "size", "vendor"}

\* the characters of the texts in use, in the order of the database's collation
Collation == <<" ", "1", "2", "9", "A", "B", "a", "b", "n", "v", "x", "y">>
CharRank(c) == CHOOSE k \in 1..Len(Collation) : Collation[k] = c

\* the database's order on two non-NULL texts
RECURSIVE TextLeq(_, _)
TextLeq(x, y) ==
    IF x = <<>> THEN TRUE
    ELSE IF y = <<>> THEN FALSE
    ELSE IF Head(x) # Head(y) THEN CharRank(Head(x)) < CharRank(Head(y))
    ELSE TextLeq(Tail(x), Tail(y))

\* the database's order on two values of a sort column; NULL sorts before every value
KeyLeq(sort_by, x, y) ==
    IF sort_by \in TextColumns
    THEN x = None \/ (y # None /\ TextLeq(x, y))
    ELSE x <= y

\* order_by(sort_column.desc() / .asc()): rows with equal keys keep an arbitrary order
Ordered(S, ids, query) ==
    \A a, b \in 1..Len(ids) : a < b =>
        IF query.sort_desc
        THEN KeyLeq(query.sort_by, SortKey(S.items[ids[b]], query.sort_by),
                    SortKey(S.items[ids[a]], query.sort_by))
        ELSE KeyLeq(query.sort_by, SortKey(S.items[ids[a]], query.sort_by),
                    SortKey(S.items[ids[b]], query.sort_by))

Min(a, b) == IF a < b THEN a ELSE b

\* db_query.filter(and_(*filters)): the ids of the matching rows
Filtered(S, query) == {i \in DOMAIN S.items : Filters(S.items[i], query)}

\* the orders in which the store may return the filtered rows under order_by
OrderedRows(S, ids, query) ==
    {o \in [1..Cardinality(ids) -> ids] :
        /\ \A a, b \in 1..Cardinality(ids) : a # b => o[a] # o[b]
        /\ Ordered(S, o, query)}

Orderings(S, query) == OrderedRows(S, Filtered(S, query), query)

\* db_query.offset(query.offset).limit(query.limit).all()
Page(ordered, query) ==
    IF query.offset >= Len(ordered) THEN <<>>
    ELSE SubSeq(ordered, query.offset + 1, Min(Len(ordered), query.offset + query.limit))

\* InventoryRepository.search: the results the store may return (items as row ids)
SearchResult(items, total_count, query) ==
    [items |-> items, total_count |-> total_count, limit |-> query.limit,
     offset |-> query.offset, has_more |-> (query.offset + Len(items)) < total_count]

\* a total_count taken after paging instead of before
CountAfterPaging(S, query) == Min(query.limit, Cardinality(Filtered(S, query)))

\* total_count = db_query.count(), taken before ordering and paging
Count(S, query) == Cardinality(Filtered(S, query))

search(S, query) ==
    {SearchResult(Page(ordered, query), Count(S, query), query) :
        ordered \in Orderings(S, query)}

\* ------------------------------------------------------- barcode lookups
\* order_by(InventoryItem.created_at.desc())
NewestFirst == [sort_by |-> "created_at", sort_desc |-> TRUE]

\* an order_by on created_at that is ascending
OldestFirst == [sort_by |-> "created_at", sort_desc |-> FALSE]

\* the filter of get_inventory_by_barcode without its sale_date condition
UnsoldWithBarcodeOrSold(S, barcode) ==
    {i \in DOMAIN S.items : S.items[i].barcode = barcode}

\* filter(InventoryItem.barcode == barcode, InventoryItem.sale_date.is_(None))
UnsoldWithBarcode(S, barcode) ==
    {i \in DOMAIN S.items : S.items[i].barcode = barcode /\ S.items[i].sale_date = NoDate}

\* InventoryRepository.get_inventory_by_barcode: the lists the store may return
get_inventory_by_barcode(S, barcode) ==
    OrderedRows(S, UnsoldWithBarcode(S, barcode), NewestFirst)

\* filter(InventoryItem.barcode == barcode)
CarryingBarcode(S, barcode) == {i \in DOMAIN S.items : S.items[i].barcode = barcode}

\* the rows of a barcode, oldest first
EarliestOrder(S, ids) == OrderedRows(S, ids, OldestFirst)

\* the rows of a barcode under order_by(created_at.desc())
LatestOrder(S, ids) == OrderedRows(S, ids, NewestFirst)

\* Query.first(): the first row, or <<>> for None
FirstOrNone(rows) == IF rows = <<>> THEN <<>> ELSE <<rows[1]>>

\* InventoryRepository.get_latest_inventory_by_barcode: the rows it may return
get_latest_inventory_by_barcode(S, barcode) ==
    {FirstOrNone(rows) : rows \in LatestOrder(S, CarryingBarcode(S, barcode))}

\* -------------------------------------------------------------- statistics
\* func.sum / func.max / func.min of price over rows: NoPrice is SQL NULL
RECURSIVE SumPrice(_, _)
SumPrice(S, ids) ==
    IF ids = {} THEN 0
    ELSE S.items[CHOOSE i \in ids : TRUE].price + SumPrice(S, ids \ {CHOOSE i \in ids : TRUE})

ScalarSum(S, ids) == IF ids = {} THEN NoPrice ELSE SumPrice(S, ids)

ScalarMax(S, ids) ==
    IF ids = {} THEN NoPrice
    ELSE CHOOSE p \in {S.items[i].price : i \in ids} : \A i \in ids : S.items[i].price <= p

ScalarMin(S, ids) ==
    IF ids = {} THEN NoPrice
    ELSE CHOOSE p \in {S.items[i].price : i \in ids} : \A i \in ids : S.items[i].price >= p

\* `float(v) if v else 0.0`
FloatOrZero(v) == IF TruthyDecimal(v) THEN v ELSE 0

\* `float(avg_price) if avg_price else 0.0`, the average kept as sum over count
AverageOrZero(total, count) ==
    IF TruthyDecimal(total) THEN <<total, count>> ELSE <<0, 1>>

\* filter(InventoryItem.sale_date.isnot(None))
SoldRows(S) == {i \in DOMAIN S.items : S.items[i].sale_date # NoDate}

\* a total value taken over every row, sold or not
InStockRowsOrSold(S) == DOMAIN S.items

\* filter(InventoryItem.sale_date.is_(None))
InStockRows(S) == {i \in DOMAIN S.items : S.items[i].sale_date = NoDate}

\* InventoryRepository.get_statistics
get_statistics(S) ==
    [total_items |-> Cardinality(DOMAIN S.items),
     sold_items |-> Cardinality(SoldRows(S)),
     in_stock_items |-> Cardinality(DOMAIN S.items) - Cardinality(SoldRows(S)),
     total_value |-> FloatOrZero(ScalarSum(S, InStockRows(S))),
     average_price |-> AverageOrZero(ScalarSum(S, DOMAIN S.items), Cardinality(DOMAIN S.items)),
     max_price |-> FloatOrZero(ScalarMax(S, DOMAIN S.items)),
     min_price |-> FloatOrZero(ScalarMin(S, DOMAIN S.items))]

\* ------------------------------------------------------------------ export
\* the header row written by export_to_csv (Korean header words romanised)
ExportHeaders == <<<<"ID">>, <<"wichi">>, <<"gumaeil">>, <<"panmaeil">>, <<"modelmyeong">>,
                   <<"ireum">>, <<"saijeu">>, <<"gumaecheo">>, <<"gagyeok">>, <<"memo_ko">>,
                   <<"saengseong_ilsi">>, <<"sujeong_ilsi">>>>

\* `value or ''`
OrEmpty(v) == IF Truthy(v) THEN v ELSE <<>>

\* the row export_to_csv writes for one item
ExportRow(item) ==
    <<<<"uuid", DigitChar[item.id + 1]>>,
      item.location,
      IF item.purchase_date # NoDate THEN DateStr(item.purchase_date) ELSE <<>>,
      IF item.sale_date # NoDate THEN DateStr(item.sale_date) ELSE <<>>,
      item.model_name,
      item.name,
      OrEmpty(item.size),
      item.vendor,
      PriceStr(item.price),
      OrEmpty(item.notes),
      <<"2024-01-01 00:00:0", DigitChar[item.created_at + 1]>>,
      <<"2024-01-01 00:00:0", DigitChar[item.created_at + 1]>>>>

\* ExportService.export_to_csv with search_query = None: the files it may write
export_to_csv(S, include_headers) ==
    {(IF include_headers THEN <<ExportHeaders>> ELSE <<>>) \o
     [k \in 1..Len(result.items) |-> ExportRow(S.items[result.items[k]])] :
        result \in search(S, [SearchQuery EXCEPT !.limit = ExportLimit])}

\* ------------------------------------------------------------------- state
VARIABLES
    items,       \* committed inventory_items table: id -> row
    barcodes,    \* committed barcodes table: rows in insertion order
    next_id,     \* primary keys handed out so far
    now,         \* the database clock
    session,     \* the tables as the session of the last operation left them
    last,        \* the last front-end operation and how it ended
    sold,        \* history: the last successful sell_item call
    written,     \* history: barcode -> the last create_or_update_barcode call for it
    import_res,  \* the last import_from_csv call: its input and what it returned
    csv_file,    \* the last file written by export_to_csv, and the table it was taken from
    store2,      \* a second, initially empty database the exported file is imported into
    search_res,  \* the last search call: query, result, and the table it ran on
    read_res,    \* the last read-only repository call: op, argument, result, table
    gui,         \* InventoryApp: the sort column and direction of the item list
    threads      \* the sell_item calls in progress, each in a session of its own

vars == <<items, barcodes, next_id, now, session, last, sold, written, import_res,
          csv_file, store2, search_res, read_res, gui, threads>>

\* db_manager.get_session(): a session on the committed tables
Session(db_ok) == [items |-> items, barcodes |-> barcodes, next_id |-> next_id,
                   now |-> now, db_ok |-> db_ok]

EmptyStore == [items |-> <<>>, barcodes |-> <<>>]

\* a session on a database whose tables are empty
EmptySession == [items |-> <<>>, barcodes |-> <<>>, next_id |-> 0, now |-> now, db_ok |-> TRUE]

\* DatabaseManager.get_session_context around an operation that ended in session
\* state S: commit, or rollback when the body raised
get_session_context(S, raised) ==
    /\ items' = IF raised THEN items ELSE S.items
    /\ barcodes' = IF raised THEN barcodes ELSE S.barcodes
    /\ next_id' = S.next_id
    /\ session' = [items |-> S.items, barcodes |-> S.barcodes]

\* cli.get_repository around an operation that ended in session state S: the session
\* is neither committed nor closed, and its rows are discarded when the process exits
get_repository(S) ==
    /\ UNCHANGED <<items, barcodes, next_id>>
    /\ session' = [items |-> S.items, barcodes |-> S.barcodes]

\* a request rejected by its schema before any session is opened
NoSession ==
    /\ UNCHANGED <<items, barcodes, next_id>>
    /\ session' = [items |-> items, barcodes |-> barcodes]

\* the threads that run sell_item, and a thread with no call in progress
Threads == {"t1", "t2"}
Idle == [pc |-> "idle"]

Op(op, ids, date, exc) == [op |-> op, ids |-> ids, date |-> date, exc |-> exc]

\* the exception leaving a web handler's session block: the repository's own, or the
\* HTTPException(404) raised inside the block when the repository reports failure
HttpExc(R) == IF R.exc # "none" THEN R.exc ELSE IF ~ R.ret THEN "HTTPException" ELSE "none"

Init ==
    /\ items = <<>>
    /\ barcodes = <<>>
    /\ next_id = 0
    /\ now = 1
    /\ session = EmptyStore
    /\ last = Op("init", {}, NoDate, "none")
    /\ sold = [id |-> 0, date |-> NoDate]
    /\ written = <<>>
    /\ import_res = <<>>
    /\ csv_file = <<>>
    /\ store2 = <<>>
    /\ search_res = <<>>
    /\ read_res = <<>>
    /\ gui = [sort_column |-> "created_at", sort_desc |-> TRUE]
    /\ threads = [t \in Threads |-> Idle]

\* ------------------------------------------------------------- front-ends
\* the history entry of a create_or_update_barcode call
Written(w, item_data) ==
    (item_data.barcode :>
        [model_name |-> item_data.model_name, name |-> item_data.name,
         calls |-> IF item_data.barcode \in DOMAIN w THEN w[item_data.barcode].calls + 1
                   ELSE 1]) @@ w

\* web_app.create_item (cli.add and the GUI's add do the same): the item is
\* validated, then create_with_barcode_update runs in a managed session; the
\* InventoryItemCreate value (the request body, when it is refused) is kept
WebCreateItem(Inputs) ==
    \E raw \in Inputs :
        LET item == InventoryItemCreate(raw)
            R == create_with_barcode_update(Session(TRUE), item.data)
        IN  /\ next_id < MaxItems
            /\ IF ~ item.ok
               THEN /\ NoSession
                    /\ last' = Op("create_with_barcode_update", {}, NoDate, "ValidationError")
                                   @@ [data |-> raw]
                    /\ UNCHANGED written
               ELSE /\ get_session_context(R.S, R.exc # "none")
                    /\ last' = Op("create_with_barcode_update", Range(R.ids), NoDate, R.exc)
                                   @@ [data |-> item.data]
                    /\ written' = IF R.exc = "none" /\ Truthy(item.data.barcode)
                                  THEN Written(written, item.data) ELSE written
            /\ UNCHANGED <<now, sold, import_res, csv_file, store2, search_res, read_res,
                           gui, threads>>

\* repository.create called in a managed session (scripts/seed_data.py)
RepoCreate(Inputs) ==
    \E raw \in Inputs :
        LET item == InventoryItemCreate(raw)
            R == create(Session(TRUE), item.data)
        IN  /\ next_id < MaxItems
            /\ item.ok
            /\ get_session_context(R.S, R.exc # "none")
            /\ last' = Op("create", Range(R.ids), NoDate, R.exc) @@ [data |-> item.data]
            /\ UNCHANGED <<now, sold, written, import_res, csv_file, store2, search_res, read_res,
                           gui, threads>>

\* repository.bulk_create called in a managed session
RepoBulkCreate(Batches) ==
    \E batch \in Batches :
        LET R == bulk_create(Session(TRUE),
                             [k \in 1..Len(batch) |-> InventoryItemCreate(batch[k]).data])
        IN  /\ next_id + Len(batch) <= MaxItems
            /\ \A k \in 1..Len(batch) : InventoryItemCreate(batch[k]).ok
            /\ get_session_context(R.S, R.exc # "none")
            /\ last' = Op("bulk_create", Range(R.ids), NoDate, R.exc)
            /\ UNCHANGED <<now, sold, written, import_res, csv_file, store2, search_res, read_res,
                           gui, threads>>

\* web_app.update_item: HTTP 404 (raised inside the session block) when not found;
\* the request body is kept next to the outcome
WebUpdateItem(Updates) ==
    \E item_id \in Ids, raw \in Updates :
        LET u == InventoryItemUpdate(raw)
            R == update(Session(TRUE), item_id, u.data)
        IN  /\ IF ~ u.ok
               THEN /\ NoSession
                    /\ last' = Op("update", {item_id}, NoDate, "ValidationError")
                                   @@ [data |-> raw]
               ELSE /\ get_session_context(R.S, HttpExc(R) # "none")
                    /\ last' = Op("update", {item_id}, NoDate, HttpExc(R))
                                   @@ [data |-> raw]
            /\ UNCHANGED <<now, sold, written, import_res, csv_file, store2, search_res, read_res,
                           gui, threads>>

\* web_app.delete_item
WebDeleteItem ==
    \E item_id \in Ids :
        LET R == delete(Session(TRUE), item_id)
        IN  /\ get_session_context(R.S, HttpExc(R) # "none")
            /\ last' = Op("delete", {item_id}, NoDate, HttpExc(R))
            /\ UNCHANGED <<now, sold, written, import_res, csv_file, store2, search_res, read_res,
                           gui, threads>>

\* web_app.sell_item (tk_app.sell_by_barcode runs the same repository call)
WebSellItem ==
    \E item_id \in Ids, sale_date \in Dates :
        LET R == sell_item(Session(TRUE), item_id, sale_date)
        IN  /\ get_session_context(R.S, HttpExc(R) # "none")
            /\ last' = Op("sell_item", {item_id}, sale_date, HttpExc(R))
            /\ sold' = IF HttpExc(R) = "none" THEN [id |-> item_id, date |-> sale_date]
                       ELSE sold
            /\ UNCHANGED <<now, written, import_res, csv_file, store2, search_res, read_res,
                           gui, threads>>

\* repository.bulk_delete called in a managed session
RepoBulkDelete ==
    \E item_ids \in SUBSET Ids :
        LET R == bulk_delete(Session(TRUE), item_ids)
        IN  /\ item_ids # {}
            /\ get_session_context(R.S, R.exc # "none")
            /\ last' = Op("bulk_delete", item_ids, NoDate, R.exc)
            /\ UNCHANGED <<now, sold, written, import_res, csv_file, store2, search_res, read_res,
                           gui, threads>>

\* the database clock moves on between two requests
Tick ==
    /\ now < MaxTime
    /\ now' = now + 1
    /\ NoSession
    /\ last' = Op("tick", {}, NoDate, "none")
    /\ UNCHANGED <<sold, written, import_res, csv_file, store2, search_res, read_res,
                   gui, threads>>

\* a read-only call, its argument, what it returned, and the table it ran on
Read(op, arg, result) == [op |-> op, arg |-> arg, result |-> result, store |-> items]

\* web_app.get_items_by_barcode: the unsold units of a barcode and their number
WebGetItemsByBarcode(Barcodes) ==
    \E barcode \in Barcodes :
        \E found \in get_inventory_by_barcode(Session(TRUE), barcode) :
            /\ read_res' = Read("get_inventory_by_barcode", barcode,
                                [items |-> found, count |-> Len(found)])
            /\ NoSession
            /\ last' = Op("get_inventory_by_barcode", Range(found), NoDate, "none")
            /\ UNCHANGED <<now, sold, written, import_res, csv_file, store2, search_res,
                           gui, threads>>

\* the response of web_app.get_barcode_info for the row it was given
BarcodeInfo(S, item) ==
    IF item = <<>> THEN [found |-> FALSE, item |-> item]
    ELSE [found |-> TRUE, item |-> item,
          model_name |-> S.items[item[1]].model_name, name |-> S.items[item[1]].name,
          size |-> S.items[item[1]].size, price |-> PriceStr(S.items[item[1]].price),
          vendor |-> S.items[item[1]].vendor]

\* web_app.get_barcode_info: the newest unit of a barcode, for auto-completion
WebGetBarcodeInfo(Barcodes) ==
    \E barcode \in Barcodes :
        \E item \in get_latest_inventory_by_barcode(Session(TRUE), barcode) :
            /\ read_res' = Read("get_latest_inventory_by_barcode", barcode,
                                BarcodeInfo(Session(TRUE), item))
            /\ NoSession
            /\ last' = Op("get_latest_inventory_by_barcode", Range(item), NoDate, "none")
            /\ UNCHANGED <<now, sold, written, import_res, csv_file, store2, search_res,
                           gui, threads>>

\* cli.stats: get_statistics on the command's session
CliStats ==
    /\ read_res' = Read("get_statistics", <<>>, get_statistics(Session(TRUE)))
    /\ get_repository(Session(TRUE))
    /\ last' = Op("get_statistics", {}, NoDate, "none")
    /\ UNCHANGED <<now, sold, written, import_res, csv_file, store2, search_res,
                   gui, threads>>

\* web_app.get_item: get_by_id in a managed session, HTTP 404 when there is no row
WebGetItem ==
    \E item_id \in Ids :
        /\ read_res' = Read("get_by_id", item_id, get_by_id(Session(TRUE), item_id))
        /\ NoSession
        /\ last' = Op("get_by_id", {item_id}, NoDate,
                      IF get_by_id(Session(TRUE), item_id) = <<>> THEN "HTTPException"
                      ELSE "none")
        /\ UNCHANGED <<now, sold, written, import_res, csv_file, store2, search_res,
                       gui, threads>>

\* cli.update: every option is passed to InventoryItemUpdate, None when omitted
CliUpdate(Options) ==
    \E item_id \in Ids, opts \in Options :
        LET u == InventoryItemUpdate(opts)
            R == update(Session(TRUE), item_id, u.data)
            exc == IF ~ u.ok THEN "ValidationError"
                   ELSE IF R.exc # "none" THEN R.exc
                   ELSE IF ~ R.ret THEN "Exit" ELSE "none"
        IN  /\ IF u.ok THEN get_repository(R.S) ELSE get_repository(Session(TRUE))
            /\ last' = Op("cli_update", {item_id}, NoDate, exc) @@ [data |-> opts]
            /\ UNCHANGED <<now, sold, written, import_res, csv_file, store2, search_res, read_res,
                           gui, threads>>

\* cli.delete: the item is looked up, the user confirms (or --force), delete runs
CliDelete ==
    \E item_id \in Ids, confirmed \in BOOLEAN :
        LET found == get_by_id(Session(TRUE), item_id) # <<>>
            R == delete(Session(TRUE), item_id)
        IN  /\ IF found /\ confirmed THEN get_repository(R.S) ELSE get_repository(Session(TRUE))
            /\ last' = Op("cli_delete", {item_id}, NoDate,
                          IF ~ found THEN "Exit" ELSE IF ~ confirmed THEN "Abort" ELSE "none")
            /\ UNCHANGED <<now, sold, written, import_res, csv_file, store2, search_res, read_res,
                           gui, threads>>

\* cli.import_csv: import_from_csv on the command's session, Exit(1) when nothing
\* was imported
CliImportCsv(Files, DbStates) ==
    \E rows \in Files, has_header \in BOOLEAN, db_ok \in DbStates, fs_ok \in BOOLEAN :
        LET R == import_from_csv(Session(db_ok), rows, has_header, fs_ok)
        IN  /\ get_repository(R.S)
            /\ import_res' = [rows |-> rows, has_header |-> has_header, db_ok |-> db_ok,
                              result |-> R.result, parsed |-> R.parsed, exc |-> R.exc,
                              missing |-> R.missing, rows_parsed |-> R.rows_parsed,
                              error_file |-> R.error_file]
            /\ last' = Op("cli_import_csv", {}, NoDate,
                          IF R.exc # "none" THEN R.exc
                          ELSE IF R.result.success_count = 0 THEN "Exit" ELSE "none")
            /\ UNCHANGED <<now, sold, written, csv_file, store2, search_res, read_res,
                           gui, threads>>

\* cli.export / the GUI's export: export_to_csv of everything in the table
ExportCsv ==
    \E file \in export_to_csv(Session(TRUE), TRUE) :
        /\ csv_file' = [rows |-> file, source |-> items]
        /\ NoSession
        /\ last' = Op("export_to_csv", {}, NoDate, "none")
        /\ UNCHANGED <<now, sold, written, import_res, store2, search_res, read_res,
                       gui, threads>>

\* import_from_csv of the exported file on a session of the empty second database
ImportExported ==
    LET R == import_from_csv(EmptySession, csv_file.rows, TRUE, TRUE)
    IN  /\ csv_file # <<>>
        /\ store2' = [items |-> R.S.items, source |-> csv_file.source, result |-> R.result]
        /\ NoSession
        /\ last' = Op("import_exported", {}, NoDate, R.exc)
        /\ UNCHANGED <<now, sold, written, import_res, csv_file, search_res, read_res,
                       gui, threads>>

\* web_app.search_items: the SearchQuery is built, then one search runs in a managed
\* session; a query its schema rejects ends the request before any session is opened
Search(Queries) ==
    \E query \in Queries :
        IF ~ SearchQueryOk(query)
        THEN /\ search_res' = [query |-> query, result |-> <<>>, store |-> items,
                               exc |-> "ValidationError"]
             /\ NoSession
             /\ last' = Op("search", {}, NoDate, "ValidationError")
             /\ UNCHANGED <<now, sold, written, import_res, csv_file, store2, read_res,
                            gui, threads>>
        ELSE \E result \in search(Session(TRUE), query) :
                /\ search_res' = [query |-> query, result |-> result, store |-> items,
                                  exc |-> "none"]
                /\ NoSession
                /\ last' = Op("search", {}, NoDate, "none")
                /\ UNCHANGED <<now, sold, written, import_res, csv_file, store2, read_res,
                               gui, threads>>

\* InventoryApp.create_list_panel: the column headers of the item list
Columns == {"ID", "wichi", "gumaeil", "panmaeil", "modelmyeong", "ireum", "saijeu",
            "bakodeu", "gumaecheo", "gagyeok", "sangtae"}

\* InventoryApp.sort_by_column: column_mapping
column_mapping ==
    [ID |-> "id", wichi |-> "location", gumaeil |-> "purchase_date",
     panmaeil |-> "sale_date", modelmyeong |-> "model_name", ireum |-> "name",
     saijeu |-> "size", bakodeu |-> "barcode", gumaecheo |-> "vendor",
     gagyeok |-> "price", sangtae |-> "created_at"]

\* column_mapping.get(column, "created_at")
DbColumn(column) ==
    IF column \in DOMAIN column_mapping THEN column_mapping[column] ELSE "created_at"

\* a click on the column that is the sort column toggles the direction, a click on
\* another column selects it, descending
Clicked(app, db_column) ==
    IF app.sort_column = db_column THEN [app EXCEPT !.sort_desc = ~ @]
    ELSE [sort_column |-> db_column, sort_desc |-> TRUE]

\* InventoryApp.refresh_data: SearchQuery(limit=1000, sort_by, sort_desc) and search
\* in a managed session
GuiLimit == 1000
RefreshQuery(app) ==
    [SearchQuery EXCEPT !.limit = GuiLimit, !.sort_by = app.sort_column,
                        !.sort_desc = app.sort_desc]

RefreshData(query) ==
    IF ~ SearchQueryOk(query)
    THEN /\ search_res' = [query |-> query, result |-> <<>>, store |-> items,
                           exc |-> "ValidationError"]
         /\ last' = Op("refresh_data", {}, NoDate, "ValidationError")
    ELSE /\ \E result \in search(Session(TRUE), query) :
                search_res' = [query |-> query, result |-> result, store |-> items,
                               exc |-> "none"]
         /\ last' = Op("refresh_data", {}, NoDate, "none")

\* InventoryApp.sort_by_column, with the refresh_data it ends in
GuiSortByColumn ==
    \E column \in Columns :
        /\ gui' = Clicked(gui, DbColumn(column))
        /\ RefreshData(RefreshQuery(Clicked(gui, DbColumn(column))))
        /\ NoSession
        /\ UNCHANGED <<now, sold, written, import_res, csv_file, store2, read_res, threads>>

\* ------------------------------------------------------------------ inputs
LocA == <<"A">>
VendA == <<"v">>
ModelA == <<"a">>
NameA == <<"x">>
ModelB == <<"b">>
NameB == <<"y">>
Blank == <<" ">>
B1 == <<"1">>
B2 == <<"2">>
Size9 == <<"9">>
NoteN == <<"n">>

RawItem(purchase_date, sale_date, model_name, name, barcode) ==
    [location |-> LocA, purchase_date |-> purchase_date, sale_date |-> sale_date,
     model_name |-> model_name, name |-> name, size |-> None, barcode |-> barcode,
     vendor |-> VendA, price |-> 1, notes |-> None]

\* items that differ in their dates, and one with a blank name
DatedItems ==
    {RawItem(p, s, ModelA, NameA, None) : p \in Dates, s \in OptDates}
    \cup {RawItem(1, NoDate, ModelA, Blank, None)}

\* updates of the date fields (a sale_date of NoDate is an explicit null)
DateUpdates ==
    {("purchase_date" :> p) : p \in Dates}
    \cup {("sale_date" :> s) : s \in OptDates}
    \cup {("name" :> Blank)}

\* one unsold item
PlainItems == {RawItem(1, NoDate, ModelA, NameA, None)}

\* a rename
NameUpdates == {("name" :> NameB)}

\* the options of `cli update`: nothing but --name, or every option of a required column
CliOptions ==
    {[location |-> None, purchase_date |-> NoDate, sale_date |-> NoDate, model_name |-> None,
      name |-> NameB, size |-> None, vendor |-> None, price |-> NoPrice, notes |-> None],
     [location |-> LocA, purchase_date |-> 1, sale_date |-> NoDate, model_name |-> ModelA,
      name |-> NameB, size |-> None, vendor |-> VendA, price |-> 1, notes |-> None]}

\* two products, with and without a barcode
BarcodeItems ==
    {RawItem(1, NoDate, ModelA, NameA, b) : b \in {None, B1, B2}}
    \cup {RawItem(1, NoDate, ModelB, NameB, b) : b \in {None, B1, B2}}

RECURSIVE SeqsUpTo(_, _)
SeqsUpTo(S, n) ==
    IF n = 0 THEN {<<>>}
    ELSE SeqsUpTo(S, n - 1) \cup
         {Append(q, x) : q \in {t \in SeqsUpTo(S, n - 1) : Len(t) = n - 1}, x \in S}

BarcodeBatches == SeqsUpTo(BarcodeItems, MaxItems) \ {<<>>}

\* the header row `wichi,gumaeil,modelmyeong,ireum,gumaecheo,gagyeok`
Header6 == <<<<"wichi">>, <<"gumaeil">>, <<"modelmyeong">>, <<"ireum">>, <<"gumaecheo">>,
             <<"gagyeok">>>>
\* a header row without a price column
Header5 == SubSeq(Header6, 1, 5)
GoodRow == <<LocA, DateStr(1), ModelA, NameA, VendA, <<"1">>>>
GoodRowB == <<LocA, <<"01/0", "2", "/2024">>, ModelB, NameB, VendA, <<"1", ",", "KRW">>>>
NoPriceRow == <<LocA, DateStr(1), ModelA, NameB, VendA, <<>>>>
BadDateRow == <<LocA, <<"2024-01-0", "x">>, ModelA, NameA, VendA, <<"1">>>>
ShortRow == <<LocA, DateStr(1)>>

OneRowFiles == {<<Header6, GoodRow>>, <<Header6, NoPriceRow>>}

\* a header row with a price column, an unknown column and no vendor column
HeaderNoVendor == SubSeq(Header6, 1, 4) \o <<<<" ", "Price">>, <<"ID">>>>
\* a header row that binds nothing
HeaderUnknown == <<<<"ID">>, <<"saengseong_ilsi">>>>

NegPriceRow == <<LocA, DateStr(1), ModelA, NameA, VendA, <<"-", "1">>>>
BlankNameRow == <<LocA, DateStr(1), ModelA, Blank, VendA, <<"1">>>>

\* files of up to MaxRows data rows under a complete header, files under headers
\* that leave required columns unbound, and three rows of which one has no price
ImportFiles ==
    {<<Header6>> \o rows :
        rows \in SeqsUpTo({GoodRow, GoodRowB, BadDateRow, ShortRow}, MaxRows)}
    \cup {<<Header5, GoodRow>>, <<HeaderNoVendor, GoodRow, BadDateRow>>,
          <<HeaderUnknown, GoodRow>>,
          <<Header6, GoodRow, NoPriceRow, GoodRowB>>, <<Header6, NegPriceRow>>}

\* items that differ in barcode, sale date, size and notes
RoundTripItems ==
    {[RawItem(1, s, ModelA, NameA, b) EXCEPT !.size = z, !.notes = n] :
        s \in {NoDate, MaxDate}, b \in {None, B1}, z \in {None, Size9}, n \in {None, NoteN}}

\* items whose barcode shares no text with their other columns
SearchItems ==
    {RawItem(1, NoDate, ModelA, NameA, B1), RawItem(1, NoDate, ModelB, NameB, None),
     [RawItem(1, NoDate, ModelA, NameB, B2) EXCEPT !.notes = B1]}

\* keyword queries, alone and under a name filter, over every page
Queries ==
    {[SearchQuery EXCEPT !.keyword = k, !.name = n, !.limit = l, !.offset = o] :
        k \in {None, B1, NameA}, n \in {None, NameB}, l \in 1..MaxLimit, o \in 0..MaxItems}

\* items of three prices
PricedItems == {[RawItem(1, NoDate, ModelA, NameA, None) EXCEPT !.price = p] : p \in {0, 1, 2}}

\* queries with a price range, a purchase-date range or a sale-date range
RangeQueries ==
    {[SearchQuery EXCEPT !.price_min = lo, !.price_max = hi] :
        lo \in {NoPrice, 0, 1, 2}, hi \in {NoPrice, 0, 1, 2}}
    \cup {[SearchQuery EXCEPT !.purchase_date_from = lo, !.purchase_date_to = hi] :
            lo \in OptDates, hi \in OptDates}
    \cup {[SearchQuery EXCEPT !.sale_date_from = lo, !.sale_date_to = hi] :
            lo \in OptDates, hi \in OptDates}

\* units of one product bought on different days under two barcodes
StockItems == {RawItem(p, NoDate, ModelA, NameA, b) : p \in Dates, b \in {B1, B2}}

\* a rename, and a rename to a blank name
StockUpdates == {("name" :> NameB), ("name" :> Blank)}

\* units of one product under two barcodes
LookupItems == {RawItem(1, NoDate, ModelA, NameA, b) : b \in {B1, B2}}

LocB == <<"B">>

\* valid items with and without a sale date, and items breaking one rule each
RuleItems ==
    {RawItem(1, NoDate, ModelA, NameA, None), RawItem(1, 1, ModelA, NameA, None),
     RawItem(2, 1, ModelA, NameA, None), RawItem(1, NoDate, ModelA, Blank, None),
     RawItem(NoDate, NoDate, ModelA, NameA, None),
     [RawItem(1, NoDate, ModelA, NameA, None) EXCEPT !.price = -1]}

\* updates of one or two fields: dates alone and together, a field applied before
\* an offending one, blank and null required fields, a negative and a null price
RuleUpdates ==
    {("purchase_date" :> p) : p \in OptDates}
    \cup {("sale_date" :> sd) : sd \in OptDates}
    \cup {("purchase_date" :> p) @@ ("sale_date" :> sd) : p \in Dates, sd \in Dates}
    \cup {("location" :> LocB) @@ ("sale_date" :> sd) : sd \in Dates}
    \cup {("location" :> LocB) @@ ("name" :> Blank), ("name" :> Blank), ("name" :> None),
          ("location" :> LocB) @@ ("price" :> -1), ("price" :> NoPrice), ("price" :> 0)}

\* one valid item, and items breaking one rule each
StoredItems ==
    {RawItem(1, NoDate, ModelA, NameA, None), RawItem(1, NoDate, ModelA, Blank, None),
     RawItem(NoDate, NoDate, ModelA, NameA, None),
     [RawItem(1, NoDate, ModelA, NameA, None) EXCEPT !.price = -1]}

\* updates that null, blank or change a required column
NullUpdates ==
    {("purchase_date" :> NoDate), ("price" :> NoPrice), ("price" :> 0), ("name" :> None),
     ("name" :> Blank), ("location" :> LocB) @@ ("price" :> -1)}

\* batches of valid items, as bulk_create is given them
RuleBatches == {<<RawItem(1, NoDate, ModelB, NameB, None), RawItem(2, 2, ModelA, NameA, None)>>}

\* files with a row of negative price and a row of blank name next to clean rows
RuleFiles == {<<Header6, NegPriceRow>>, <<Header6, BlankNameRow, GoodRowB>>}

\* a new price, and a sale undone
PriceUpdates == {("price" :> 2), ("sale_date" :> NoDate)}

Padded(text) == <<" ">> \o text \o <<" ">>

\* items with padded text, a blank size, padded notes and a barcode, next to a plain one
GetItems ==
    {RawItem(1, NoDate, ModelA, NameA, None),
     [RawItem(1, 2, Padded(ModelA), Padded(NameB), B1)
         EXCEPT !.size = Padded(Size9), !.notes = Padded(NoteN)],
     [RawItem(2, NoDate, ModelB, NameB, B2) EXCEPT !.size = Blank, !.price = 0]}

\* updates of one or two fields, as the web API is given them
PartialUpdates ==
    {("name" :> Padded(NameA)), ("size" :> Blank), ("notes" :> NoteN) @@ ("price" :> 2),
     ("sale_date" :> NoDate), ("name" :> Blank) @@ ("price" :> 2)}

\* sample lists of one or two items: with a barcode, without one, with a blank name
SampleItems ==
    {<<a>> : a \in {RawItem(1, NoDate, ModelA, NameA, B1), RawItem(1, NoDate, ModelB, NameB, B2),
                    RawItem(1, NoDate, ModelA, NameA, None),
                    RawItem(1, NoDate, ModelA, Blank, B1)}}
    \cup {<<a, b>> : a \in {RawItem(1, NoDate, ModelA, NameA, B1),
                            RawItem(1, NoDate, ModelA, NameA, None)},
                     b \in {RawItem(1, NoDate, ModelB, NameB, B2),
                            RawItem(1, NoDate, ModelB, NameB, B1)}}

\* items that differ in every sort column
SortItems ==
    {[RawItem(1, NoDate, ModelA, NameB, B1) EXCEPT !.price = 2],
     [RawItem(2, 2, ModelB, NameA, None) EXCEPT !.size = Size9, !.price = 0,
                                                 !.location = LocB]}

\* the queries of the command line and of the web API: any text as sort_by
SortQueries ==
    {[SearchQuery EXCEPT !.sort_by = k, !.sort_desc = d] :
        k \in {"name", "sale_date", "barcode", "updated_at"}, d \in BOOLEAN}

\* ------------------------------------------------- database initialization
\* where the barcode step of a create_with_barcode_update call may raise: nowhere, at
\* the lookup of the existing record (the session stays usable), or at the flush of
\* the record (the session's transaction is rolled back and refuses further work
\* with PendingRollbackError, commit included)
Faults == {"none", "query", "flush"}

\* the sample passed the schema and create has flushed it (result c): the barcode step
AfterCreate(L, S0, c, item_data, fault) ==
    IF c.exc # "none" THEN L
    ELSE IF ~ Truthy(item_data.barcode) \/ fault = "none"
    THEN [L EXCEPT !.S = WithBarcode(c, item_data).S, !.added = @ + 1]
    ELSE IF fault = "query" THEN [L EXCEPT !.S = c.S]
    ELSE [L EXCEPT !.S = [c.S EXCEPT !.items = S0.items, !.barcodes = S0.barcodes],
                   !.active = FALSE]

\* one pass of the for loop of initialize_database: every exception is caught and
\* reported, and the loop goes on in the same session
AddSample(L, S0, item, fault) ==
    IF ~ item.ok \/ ~ L.active THEN L
    ELSE AfterCreate(L, S0, create(L.S, item.data), item.data, fault)

RECURSIVE AddSamples(_, _, _, _, _)
AddSamples(L, S0, sample_items, faults, k) ==
    IF k > Len(sample_items) THEN L
    ELSE AddSamples(AddSample(L, S0, InventoryItemCreate(sample_items[k]), faults[k]),
                    S0, sample_items, faults, k + 1)

\* initialize_database: the samples are added in one managed session, which commits
\* when the loop is over
InitializeDatabase(Samples) ==
    \E sample_items \in Samples :
        \E faults \in [1..Len(sample_items) -> Faults] :
            LET L == AddSamples([S |-> Session(TRUE), active |-> TRUE, added |-> 0],
                                Session(TRUE), sample_items, faults, 1)
            IN  /\ next_id + Len(sample_items) <= MaxItems
                /\ get_session_context(L.S, ~ L.active)
                /\ last' = Op("initialize_database",
                              IF L.active THEN DOMAIN L.S.items \ DOMAIN items ELSE {},
                              NoDate,
                              IF L.active THEN "none" ELSE "PendingRollbackError")
                               @@ [data |-> sample_items, faults |-> faults,
                                   added_count |-> L.added]
                /\ UNCHANGED <<now, sold, written, import_res, csv_file, store2,
                               search_res, read_res, gui, threads>>

\* ------------------------------------------------------ concurrent sales
\* tk_app.sell_by_barcode starts a thread per sale, and the web server runs one
\* request per worker: each runs sell_item in a session of its own.  A thread is
\*   idle    : no call yet
\*   read    : get_by_id has returned db_item, read from the committed table
\*   flushed : the checks passed and the UPDATE of the row was flushed, not committed
\*   done    : the session block was left, with ret and exc
\* the thread that holds the lock of a row: its UPDATE is flushed and not committed
Locked(item_id) == \E o \in Threads : threads[o].pc = "flushed" /\ threads[o].item_id = item_id

\* sell_item up to the return of get_by_id
SellRead ==
    \E t \in Threads, item_id \in Ids, sale_date \in Dates :
        /\ threads[t].pc = "idle"
        /\ threads' = [threads EXCEPT ![t] =
                          [pc |-> "read", item_id |-> item_id, sale_date |-> sale_date,
                           db_item |-> get_by_id(Session(TRUE), item_id),
                           ret |-> FALSE, exc |-> "none"]]
        /\ NoSession
        /\ last' = Op("sell_item.get_by_id", {item_id}, sale_date, "none")
        /\ UNCHANGED <<now, sold, written, import_res, csv_file, store2, search_res,
                       read_res, gui>>

\* sell_item from the checks on db_item to the flush: the UPDATE waits while another
\* session holds the row; a call that returned False or raised leaves its session block
SellFlush ==
    \E t \in Threads :
        LET R == Sell(Session(TRUE), threads[t].item_id, threads[t].db_item,
                      threads[t].sale_date)
        IN  /\ threads[t].pc = "read"
            /\ (R.exc = "none" /\ R.ret) => ~ Locked(threads[t].item_id)
            /\ threads' = [threads EXCEPT ![t].pc = IF R.exc = "none" /\ R.ret
                                                    THEN "flushed" ELSE "done",
                                          ![t].ret = R.ret, ![t].exc = R.exc]
            /\ NoSession
            /\ last' = Op("sell_item.flush", {threads[t].item_id}, threads[t].sale_date,
                          R.exc)
            /\ UNCHANGED <<now, sold, written, import_res, csv_file, store2, search_res,
                           read_res, gui>>

\* the UPDATE gives up waiting for the row: the database's lock timeout
SellLockTimeout ==
    \E t \in Threads :
        /\ threads[t].pc = "read"
        /\ threads[t].db_item # <<>> /\ threads[t].db_item[1].sale_date = NoDate
        /\ Locked(threads[t].item_id)
        /\ threads' = [threads EXCEPT ![t].pc = "done", ![t].exc = "OperationalError"]
        /\ NoSession
        /\ last' = Op("sell_item.flush", {threads[t].item_id}, threads[t].sale_date,
                      "OperationalError")
        /\ UNCHANGED <<now, sold, written, import_res, csv_file, store2, search_res,
                       read_res, gui>>

\* get_session_context after sell_item returned True: session.commit() writes the
\* flushed UPDATE of sale_date to the table
SellCommit ==
    \E t \in Threads :
        /\ threads[t].pc = "flushed"
        /\ threads' = [threads EXCEPT ![t].pc = "done"]
        /\ items' = [items EXCEPT ![threads[t].item_id].sale_date = threads[t].sale_date]
        /\ session' = [items |-> items', barcodes |-> barcodes]
        /\ last' = Op("sell_item", {threads[t].item_id}, threads[t].sale_date, "none")
        /\ UNCHANGED <<barcodes, next_id, now, sold, written, import_res, csv_file, store2,
                       search_res, read_res, gui>>

\* ------------------------------------------------------ reading the source
\* The bytes of a file are a sequence of units: the ASCII bytes "a", "," and "NL"
\* (line feed), "U" (a Hangul syllable in UTF-8, three bytes), "K" (a Hangul
\* syllable in EUC-KR, two bytes), "C" (a syllable of the CP949 extension, two
\* bytes) and "X" (the byte 0xFF).
MaxBytes == 3
Ascii == {"a", ",", "NL"}
ByteUnits == Ascii \cup {"U", "K", "C", "X"}

\* the units a codec decodes without UnicodeDecodeError
Decodable(encoding) ==
    CASE encoding = "utf-8" -> Ascii \cup {"U"}
      [] encoding = "cp949" -> Ascii \cup {"K", "C"}
      [] encoding = "euc-kr" -> Ascii \cup {"K"}
      [] encoding = "latin-1" -> ByteUnits
      [] OTHER -> Ascii

\* the text a codec makes of a unit: the character it encodes, or for latin-1 one
\* character per byte
DecodeUnit(encoding, u) ==
    IF u \in Ascii THEN <<u>>
    ELSE IF encoding = "latin-1"
    THEN CASE u = "U" -> <<"latin(U1)", "latin(U2)", "latin(U3)">>
           [] u = "X" -> <<"latin(X)">>
           [] OTHER -> <<"latin(" \o u \o "1)", "latin(" \o u \o "2)">>
    ELSE <<"hangul(" \o u \o ")">>

RECURSIVE Decode(_, _)
Decode(encoding, bytes) ==
    IF bytes = <<>> THEN <<>>
    ELSE DecodeUnit(encoding, Head(bytes)) \o Decode(encoding, Tail(bytes))

\* open(file_path, encoding=...) and reading it all: FALSE is UnicodeDecodeError
DecodeOk(encoding, bytes) == Range(bytes) \subseteq Decodable(encoding)

\* csv.reader over the decoded text: lines end at a line feed, cells at a comma
RECURSIVE SplitOn(_, _, _, _)
SplitOn(text, sep, cur, keep_last) ==
    IF text = <<>> THEN (IF cur # <<>> \/ keep_last THEN <<cur>> ELSE <<>>)
    ELSE IF Head(text) = sep THEN <<cur>> \o SplitOn(Tail(text), sep, <<>>, keep_last)
    ELSE SplitOn(Tail(text), sep, Append(cur, Head(text)), keep_last)

CsvCells(line) == IF line = <<>> THEN <<>> ELSE SplitOn(line, ",", <<>>, TRUE)

CsvRows(text) ==
    [k \in 1..Len(SplitOn(text, "NL", <<>>, FALSE)) |->
        CsvCells(SplitOn(text, "NL", <<>>, FALSE)[k])]

\* the body of one attempt of _read_csv_file, given the rows that were read
SplitHeader(rows, has_header, encoding) ==
    IF rows = <<>>
    THEN [exc |-> "ValueError(empty)", data_rows |-> <<>>, headers |-> None, encoding |-> encoding]
    ELSE [exc |-> "none", data_rows |-> IF has_header THEN Tail(rows) ELSE rows,
          headers |-> IF has_header THEN rows[1] ELSE None, encoding |-> encoding]

\* fallback encodings tried in another order
FallbackLatinFirst == <<"latin-1", "cp949", "euc-kr">>

\* _read_csv_file: the encodings tried after the first UnicodeDecodeError
FallbackEncodings == <<"cp949", "euc-kr", "latin-1">>

\* the for loop over the fallback encodings
RECURSIVE Fallback(_, _, _)
Fallback(bytes, has_header, i) ==
    IF i > Len(FallbackEncodings)
    THEN [exc |-> "ValueError(encoding)", data_rows |-> <<>>, headers |-> None,
          encoding |-> "none"]
    ELSE IF DecodeOk(FallbackEncodings[i], bytes)
    THEN SplitHeader(CsvRows(Decode(FallbackEncodings[i], bytes)), has_header,
                     FallbackEncodings[i])
    ELSE Fallback(bytes, has_header, i + 1)

\* ImportService._read_csv_file
read_csv_file(bytes, has_header, encoding) ==
    IF DecodeOk(encoding, bytes)
    THEN SplitHeader(CsvRows(Decode(encoding, bytes)), has_header, encoding)
    ELSE Fallback(bytes, has_header, 1)

\* the encodings a caller passes
CallerEncodings == {"utf-8", "cp949", "euc-kr", "latin-1", "ascii"}

\* the files of up to MaxBytes units
Sources == SeqsUpTo(ByteUnits, MaxBytes)

\* a file and the arguments of the call that is about to read it
InitRead ==
    /\ items = <<>>
    /\ barcodes = <<>>
    /\ next_id = 0
    /\ now = 1
    /\ session = EmptyStore
    /\ last = Op("init", {}, NoDate, "none")
    /\ sold = [id |-> 0, date |-> NoDate]
    /\ written = <<>>
    /\ import_res = <<>>
    /\ csv_file = <<>>
    /\ store2 = <<>>
    /\ search_res = <<>>
    /\ \E bytes \in Sources, has_header \in BOOLEAN, encoding \in CallerEncodings :
          read_res = Read("call", [bytes |-> bytes, has_header |-> has_header,
                                   encoding |-> encoding], <<>>)
    /\ gui = [sort_column |-> "created_at", sort_desc |-> TRUE]
    /\ threads = [t \in Threads |-> Idle]

\* the call of _read_csv_file
ReadCsvFile ==
    /\ read_res.op = "call"
    /\ read_res' = Read("_read_csv_file", read_res.arg,
                        read_csv_file(read_res.arg.bytes, read_res.arg.has_header,
                                      read_res.arg.encoding))
    /\ NoSession
    /\ last' = Op("_read_csv_file", {}, NoDate,
                  read_csv_file(read_res.arg.bytes, read_res.arg.has_header,
                                read_res.arg.encoding).exc)
    /\ UNCHANGED <<now, sold, written, import_res, csv_file, store2, search_res,
                   gui, threads>>

\* ---------------------------------------------------------- specifications
\* the web front-end: create, update, delete, sell
Next ==
    \/ WebCreateItem(DatedItems)
    \/ WebUpdateItem(DateUpdates)
    \/ WebDeleteItem
    \/ WebSellItem

Spec == Init /\ [][Next]_vars

\* the command line next to the web front-end
NextCli ==
    \/ WebCreateItem(PlainItems)
    \/ WebUpdateItem(NameUpdates)
    \/ CliUpdate(CliOptions)
    \/ CliDelete
    \/ CliImportCsv(OneRowFiles, {TRUE})

SpecCli == Init /\ [][NextCli]_vars

\* the three creation paths of the repository
NextBarcode ==
    \/ WebCreateItem(BarcodeItems)
    \/ RepoCreate(BarcodeItems)
    \/ RepoBulkCreate(BarcodeBatches)

SpecBarcode == Init /\ [][NextBarcode]_vars

\* CSV import with a database that may fail
NextImport ==
    \/ CliImportCsv(ImportFiles, BOOLEAN)

SpecImport == Init /\ [][NextImport]_vars

\* export, then import into an empty database
NextRoundTrip ==
    \/ WebCreateItem(RoundTripItems)
    \/ ExportCsv
    \/ ImportExported

SpecRoundTrip == Init /\ [][NextRoundTrip]_vars

\* search over a growing table
NextSearch ==
    \/ WebCreateItem(SearchItems)
    \/ Search(Queries)

SpecSearch == Init /\ [][NextSearch]_vars

\* range searches over a growing table
NextRange ==
    \/ WebCreateItem(PricedItems)
    \/ Search(RangeQueries)

SpecRange == Init /\ [][NextRange]_vars

\* barcoded stock: units are created, renamed, sold and deleted over time
NextStock ==
    \/ WebCreateItem(StockItems)
    \/ WebUpdateItem(StockUpdates)
    \/ WebSellItem
    \/ WebDeleteItem
    \/ RepoBulkDelete
    \/ Tick

SpecStock == Init /\ [][NextStock]_vars

\* barcode lookups next to creating, selling and deleting units
NextLookup ==
    \/ WebCreateItem(LookupItems)
    \/ WebSellItem
    \/ WebDeleteItem
    \/ Tick
    \/ WebGetItemsByBarcode({B1, B2})
    \/ WebGetBarcodeInfo({B1, B2})

SpecLookup == Init /\ [][NextLookup]_vars

\* creations and updates that keep or break the validation rules
NextRules ==
    \/ WebCreateItem(RuleItems)
    \/ WebUpdateItem(RuleUpdates)

SpecRules == Init /\ [][NextRules]_vars

\* every way a row gets into the table or is changed there
NextStored ==
    \/ WebCreateItem(StoredItems)
    \/ RepoBulkCreate(RuleBatches)
    \/ CliImportCsv(RuleFiles, {TRUE})
    \/ WebUpdateItem(NullUpdates)

SpecStored == Init /\ [][NextStored]_vars

\* statistics over a table that grows, shrinks and sells
NextStats ==
    \/ WebCreateItem(PricedItems)
    \/ WebSellItem
    \/ WebUpdateItem(PriceUpdates)
    \/ WebDeleteItem
    \/ CliStats

SpecStats == Init /\ [][NextStats]_vars

\* items are created, read back by id and deleted
NextGet ==
    \/ WebCreateItem(GetItems)
    \/ RepoCreate(GetItems)
    \/ WebDeleteItem
    \/ WebGetItem
    \/ Tick

SpecGet == Init /\ [][NextGet]_vars

\* the item list is sorted by its column headers; other front-ends search sorted
NextSort ==
    \/ WebCreateItem(SortItems)
    \/ GuiSortByColumn
    \/ Search(SortQueries)
    \/ Tick

SpecSort == Init /\ [][NextSort]_vars

\* items are updated through the web API and through the command line
NextUpdate ==
    \/ WebCreateItem(GetItems)
    \/ WebUpdateItem(PartialUpdates)
    \/ CliUpdate(CliOptions)

SpecUpdate == Init /\ [][NextUpdate]_vars

\* files of every content are read under every caller's encoding
NextRead == ReadCsvFile

SpecRead == InitRead /\ [][NextRead]_vars

\* two threads sell units of one product
NextConcurrent ==
    \/ WebCreateItem(LookupItems)
    \/ SellRead
    \/ SellFlush
    \/ SellLockTimeout
    \/ SellCommit

SpecConcurrent == Init /\ [][NextConcurrent]_vars

\* the database is initialized with samples, and items are added through the web API
NextInitialize ==
    \/ InitializeDatabase(SampleItems)
    \/ WebCreateItem(LookupItems)

SpecInitialize == Init /\ [][NextInitialize]_vars

\* ------------------------------------------------------------------ claims
\* C1 as stated: once sell_item(id, d1) has succeeded, every later sell_item(id, d2)
\* returns failure and the item's sale_date is still d1.
C1_LaterSellFails ==
    [][(sold.id # 0 /\ last'.op = "sell_item" /\ last'.ids = {sold.id})
         => /\ last'.exc # "none"
            /\ sold.id \in DOMAIN items' => items'[sold.id].sale_date = sold.date]_vars

\* C1 amended: a sell_item call on an item whose sale_date is present returns failure
\* and leaves the table, and so the item's sale_date, unchanged.
C1_SellOfSoldItemFails ==
    [][(/\ last'.op = "sell_item"
        /\ \E id \in DOMAIN items : last'.ids = {id} /\ items[id].sale_date # NoDate)
         => (last'.exc = "HTTPException" /\ items' = items)]_vars

\* a second sell_item with another date was refused; the item keeps the first date
C1_SoldItemSoldAgain ==
    /\ last.op = "sell_item" /\ last.exc = "HTTPException"
    /\ last.ids = {sold.id} /\ last.date # sold.date
    /\ sold.id \in DOMAIN items /\ items[sold.id].sale_date = sold.date

\* C2: every stored item whose sale_date is present has sale_date >= purchase_date
\* (so an update moving only purchase_date past the stored sale_date is rejected).
C2_SaleNotBeforePurchase ==
    \A id \in DOMAIN items :
        items[id].sale_date # NoDate => items[id].sale_date >= items[id].purchase_date

\* C3: after an item with a non-empty barcode is created by create,
\* create_with_barcode_update or bulk_create, a barcode record for that barcode
\* exists and holds the item's model_name and name.
C3_BarcodeRecordOnCreate ==
    (last.op \in {"create", "create_with_barcode_update", "bulk_create"} /\ last.exc = "none")
        => \A id \in last.ids :
               Truthy(items[id].barcode) =>
                   get_barcode_info(Session(TRUE), items[id].barcode) =
                       <<Barcode(items[id].barcode, items[id].model_name, items[id].name)>>

\* C4: there is at most one barcode record per barcode, and get_barcode_info(b)
\* returns the model_name and name of the most recent create_or_update_barcode call
\* for b, or nothing if b was never written.
C4_OneRecordPerBarcode ==
    /\ \A i, j \in 1..Len(barcodes) : barcodes[i].barcode = barcodes[j].barcode => i = j
    /\ \A b \in {B1, B2} :
           get_barcode_info(Session(TRUE), b) =
               IF b \in DOMAIN written
               THEN <<Barcode(b, written[b].model_name, written[b].name)>>
               ELSE <<>>

\* a barcode written twice, the second time for another product: one record, the
\* second product's
C4_BarcodeOverwritten ==
    \E b \in DOMAIN written :
        /\ written[b].calls = 2
        /\ written[b].model_name = ModelB
        /\ \E id \in DOMAIN items : items[id].barcode = b /\ items[id].model_name = ModelA
        /\ Len(barcodes) = 1

\* C5: a front-end write that completes without exception is committed (a new
\* session sees what the operation's session saw), one that raises changes nothing;
\* this includes the CLI's update, delete and import-csv.
C5_CommitOrRollback ==
    [][last'.op \in {"create_with_barcode_update", "update", "delete", "sell_item",
                     "cli_update", "cli_delete", "cli_import_csv"}
         => IF last'.exc = "none"
            THEN items' = session'.items /\ barcodes' = session'.barcodes
            ELSE items' = items /\ barcodes' = barcodes]_vars

\* the keys of the data rows (file line numbers) that parse and validate cleanly
CleanRows(rows) ==
    IF map_columns(rows[1]).ok
    THEN {k \in 2..Len(rows) :
            parse_row(rows[k], map_columns(rows[1]).column_mapping, TRUE).ok}
    ELSE {}

SameFields(item, data) == \A f \in DOMAIN data : item[f] = data[f]

\* the clean rows of the last import are rows of the table its session saw
CleanRowsStored ==
    \A k \in CleanRows(import_res.rows) :
        \E id \in DOMAIN session.items :
            SameFields(session.items[id],
                       parse_row(import_res.rows[k],
                                 map_columns(import_res.rows[1]).column_mapping, TRUE).item)

C7_FailedBatch ==
    (/\ last.op = "cli_import_csv" /\ import_res.has_header /\ ~ import_res.db_ok
     /\ CleanRows(import_res.rows) # {})
        => /\ import_res.exc = "none"
           /\ import_res.result.success_count = 0
           /\ Cardinality({e \in DOMAIN import_res.result.errors :
                              import_res.result.errors[e].row = RowNA})
                  = Cardinality(CleanRows(import_res.rows))
           /\ import_res.result.error_count = Len(import_res.rows) - 1
           /\ Len(import_res.result.errors) = import_res.result.error_count
           /\ session.items = items

\* a file with one clean row and one bad row met a failing database: two errors
C7_BatchFailedAfterParseError ==
    /\ last.op = "cli_import_csv" /\ import_res.has_header /\ ~ import_res.db_ok
    /\ Cardinality(CleanRows(import_res.rows)) = 1
    /\ Len(import_res.rows) = 3
    /\ import_res.result.error_count = 2
    /\ import_res.result.success_count = 0

\* the columns of an item other than id and timestamps
Fields(item) == [f \in Range(FieldOrder) |-> item[f]]

\* the items of a table as a multiset of their Fields
Multi(table) ==
    [r \in {Fields(table[i]) : i \in DOMAIN table} |->
        Cardinality({i \in DOMAIN table : Fields(table[i]) = r})]

\* C8: importing the export of the whole table into an empty database yields items
\* equal to the originals in every field but id and timestamps, barcode included.
C8_RoundTrip == store2 # <<>> => Multi(store2.items) = Multi(store2.source)

\* the keyword filter the claim describes: a substring of one of five columns
KeywordInFive(item, keyword) ==
    \/ KeywordFilter(item, keyword)
    \/ Like(item.barcode, keyword)

\* C9: a keyword search returns exactly the items with the keyword in name,
\* model_name, vendor, notes or barcode that also pass every other filter; an item
\* matching only by its barcode is returned.
C9_KeywordOverFiveColumns ==
    (/\ search_res # <<>>
     /\ Truthy(search_res.query.keyword)
     /\ search_res.query.offset = 0
     /\ search_res.query.limit >= Cardinality(DOMAIN search_res.store))
        => Range(search_res.result.items) =
               {i \in DOMAIN search_res.store :
                   /\ KeywordInFive(search_res.store[i], search_res.query.keyword)
                   /\ Filters(search_res.store[i], [search_res.query EXCEPT !.keyword = None])}

\* the stored rows a query's filters select
Matching(store, query) == {i \in DOMAIN store : Filters(store[i], query)}

\* C10: total_count is the number of stored items matching the filters (all rows
\* when there is no filter) whatever limit and offset are, at most limit items are
\* returned, and has_more holds exactly when offset + len(items) < total_count.
C10_Pagination ==
    search_res # <<>> =>
        /\ search_res.result.total_count
               = Cardinality(Matching(search_res.store, search_res.query))
        /\ (~ Truthy(search_res.query.keyword) /\ ~ Truthy(search_res.query.name))
               => search_res.result.total_count = Cardinality(DOMAIN search_res.store)
        /\ Len(search_res.result.items) <= search_res.query.limit
        /\ Range(search_res.result.items) \subseteq Matching(search_res.store, search_res.query)
        /\ search_res.result.has_more
               <=> (search_res.query.offset + Len(search_res.result.items)
                        < search_res.result.total_count)

\* the first page of one row out of two matching rows: more to come
C10_FirstPageOfTwo ==
    /\ search_res # <<>>
    /\ search_res.query.limit = 1 /\ search_res.query.offset = 0
    /\ Len(search_res.result.items) = 1
    /\ search_res.result.total_count = 2
    /\ search_res.result.has_more

\* a query whose price range or one of whose date ranges has its lower end above its
\* upper end
Inverted(query) ==
    \/ /\ query.price_min # NoPrice /\ query.price_max # NoPrice
       /\ query.price_min >= 0 /\ query.price_max >= 0
       /\ query.price_min > query.price_max
    \/ /\ query.purchase_date_from # NoDate /\ query.purchase_date_to # NoDate
       /\ query.purchase_date_from > query.purchase_date_to
    \/ /\ query.sale_date_from # NoDate /\ query.sale_date_to # NoDate
       /\ query.sale_date_from > query.sale_date_to

\* C11: a search whose price_min exceeds its price_max (price_max = 0 included), or
\* whose date range starts after it ends, fails with a validation error and the
\* store is not queried.
C11_InvertedRangeRejected ==
    (search_res # <<>> /\ Inverted(search_res.query))
        => (search_res.exc = "ValidationError" /\ search_res.result = <<>>)

\* the step is a sell_item call on a stored item whose sale_date is absent
SellOfUnsold(id) ==
    /\ last'.op = "sell_item" /\ last'.ids = {id}
    /\ id \in DOMAIN items /\ items[id].sale_date = NoDate

\* the call succeeded and changed nothing but that item's sale_date
SoldOnly(id) ==
    /\ last'.exc = "none"
    /\ items' = [items EXCEPT ![id].sale_date = last'.date]
    /\ barcodes' = barcodes

\* C12 as stated: sell_item(id, d) on an existing item whose sale_date is absent
\* succeeds for every d; afterwards the item's sale_date is d and every other field,
\* every other item and every barcode record is unchanged.
C12_SellOfUnsoldSucceeds ==
    [][\A id \in Ids : SellOfUnsold(id) => SoldOnly(id)]_vars

\* C12 amended: the same for every d not earlier than the item's purchase_date.
C12_SellOnOrAfterPurchaseSucceeds ==
    [][\A id \in Ids :
          (SellOfUnsold(id) /\ last'.date >= items[id].purchase_date) => SoldOnly(id)]_vars

\* one of two units of a barcode was sold on its day of purchase; the other unit and
\* the barcode record are still there
C12_OneUnitSold ==
    /\ last.op = "sell_item" /\ last.exc = "none"
    /\ \E id \in DOMAIN items :
           /\ last.ids = {id}
           /\ items[id].sale_date = last.date
           /\ items[id].purchase_date = last.date
           /\ \E other \in DOMAIN items \ {id} :
                  /\ items[other].barcode = items[id].barcode
                  /\ items[other].sale_date = NoDate
    /\ barcodes # <<>>

\* a list of row ids without repetition, newest row first
NewestFirstList(store, ids) ==
    /\ \A a, b \in 1..Len(ids) : a # b => ids[a] # ids[b]
    /\ \A a, b \in 1..Len(ids) :
           a < b => store[ids[a]].created_at >= store[ids[b]].created_at

\* C13: get_inventory_by_barcode(b) returns exactly the items whose barcode is b and
\* whose sale_date is absent, newest first; so a unit that was sold is no longer
\* returned while the other units of the barcode still are.
C13_UnsoldUnitsOfBarcode ==
    (read_res # <<>> /\ read_res.op = "get_inventory_by_barcode")
        => /\ Range(read_res.result.items) =
                  {i \in DOMAIN read_res.store :
                      /\ read_res.store[i].barcode = read_res.arg
                      /\ read_res.store[i].sale_date = NoDate}
           /\ NewestFirstList(read_res.store, read_res.result.items)

\* two units of a barcode, one of them sold: the lookup returns the other one only
C13_SoldUnitNotReturned ==
    /\ read_res # <<>> /\ read_res.op = "get_inventory_by_barcode"
    /\ sold.id \in DOMAIN read_res.store
    /\ read_res.store[sold.id].barcode = read_res.arg
    /\ read_res.store[sold.id].sale_date # NoDate
    /\ Len(read_res.result.items) = 1
    /\ read_res.result.items[1] # sold.id

\* the stored rows that carry a barcode
Carrying(store, barcode) == {i \in DOMAIN store : store[i].barcode = barcode}

\* C14: get_latest_inventory_by_barcode(b) returns an item carrying b with the
\* greatest created_at among the stored items carrying b, sold or not, and returns
\* nothing exactly when no stored item carries b; whatever was sold or deleted
\* before, the item returned never has another barcode.
C14_LatestUnitOfBarcode ==
    (read_res # <<>> /\ read_res.op = "get_latest_inventory_by_barcode")
        => /\ read_res.result.found <=> Carrying(read_res.store, read_res.arg) # {}
           /\ read_res.result.found <=> read_res.result.item # <<>>
           /\ \A k \in 1..Len(read_res.result.item) :
                  /\ read_res.result.item[k] \in Carrying(read_res.store, read_res.arg)
                  /\ \A j \in Carrying(read_res.store, read_res.arg) :
                         read_res.store[read_res.result.item[k]].created_at
                             >= read_res.store[j].created_at

\* two units of a barcode created at different times, the newer one sold: the
\* lookup returns the newer one
C14_NewerSoldUnitReturned ==
    /\ read_res # <<>> /\ read_res.op = "get_latest_inventory_by_barcode"
    /\ read_res.result.found
    /\ read_res.store[read_res.result.item[1]].sale_date # NoDate
    /\ \E j \in Carrying(read_res.store, read_res.arg) :
           /\ read_res.store[j].created_at < read_res.store[read_res.result.item[1]].created_at
           /\ read_res.store[j].sale_date = NoDate

\* C15: delete, bulk_delete, update and sell_item never remove or change a barcode
\* record, in the table or in the operation's session: get_barcode_info(b) returns
\* after the operation what it returned before, also once every item carrying b is
\* deleted.
C15_BarcodeRecordsKept ==
    [][last'.op \in {"delete", "bulk_delete", "update", "sell_item"}
         => /\ barcodes' = barcodes
            /\ session'.barcodes = barcodes
            /\ \A b \in {B1, B2} :
                   get_barcode_info([barcodes |-> barcodes'], b)
                       = get_barcode_info([barcodes |-> barcodes], b)]_vars

\* the last unit of a barcode was deleted; the barcode's record is still returned
C15_RecordOutlivesItems ==
    /\ last.op \in {"delete", "bulk_delete"} /\ last.exc = "none"
    /\ \E b \in {B1, B2} :
           /\ \A id \in DOMAIN items : items[id].barcode # b
           /\ get_barcode_info(Session(TRUE), b) = <<Barcode(b, ModelA, NameA)>>

\* C16: update, delete and sell_item on an id that matches no stored item report
\* "not found" (None, False, False: the front-end's 404) without raising, and leave
\* every stored item and every barcode record unchanged.
C16_UnknownIdIsNoOp ==
    [][\A id \in Ids :
          (/\ last'.op \in {"update", "delete", "sell_item"}
           /\ last'.ids = {id}
           /\ id \notin DOMAIN items
           /\ last'.exc # "ValidationError")
              => /\ last'.exc = "HTTPException"
                 /\ items' = items /\ barcodes' = barcodes
                 /\ session' = [items |-> items, barcodes |-> barcodes]]_vars

\* an update of an id that was deleted before: not found, the other unit untouched
C16_UpdateOfDeletedItem ==
    /\ last.op = "update" /\ last.exc = "HTTPException"
    /\ \E id \in Ids : last.ids = {id} /\ id \notin DOMAIN items /\ id <= next_id
    /\ items # <<>> /\ barcodes # <<>>

\* the value a field has once the update is applied to the item
Updated(item, data, f) == IF f \in DOMAIN data THEN data[f] ELSE item[f]

\* the update breaks a validation rule: a blank required string, a negative price,
\* or a sale_date that ends up earlier than the purchase_date
RuleViolated(item, data) ==
    \/ \E f \in RequiredText \cap DOMAIN data : data[f] # None /\ strip(data[f]) = <<>>
    \/ "price" \in DOMAIN data /\ data.price # NoPrice /\ data.price < 0
    \/ /\ Updated(item, data, "sale_date") # NoDate
       /\ Updated(item, data, "purchase_date") # NoDate
       /\ Updated(item, data, "sale_date") < Updated(item, data, "purchase_date")

\* C17: an update that breaks a validation rule fails and leaves every field of the
\* stored item unchanged, the fields applied before the offending one included.
C17_InvalidUpdateChangesNothing ==
    [][\A id \in Ids :
          (/\ last'.op = "update" /\ last'.ids = {id}
           /\ id \in DOMAIN items
           /\ RuleViolated(items[id], last'.data))
              => (last'.exc # "none" /\ items' = items)]_vars

\* a row with a non-negative price, non-blank required strings and a purchase date
WellFormed(item) ==
    /\ item.price >= 0
    /\ \A f \in RequiredText : item[f] # None /\ strip(item[f]) # <<>>
    /\ item.purchase_date # NoDate

\* C18: after any sequence of create, bulk_create, import and update operations,
\* every item of the table, and of the table as the last operation's session saw
\* it, has price >= 0, non-blank location, model_name, name and vendor, and a
\* purchase_date.
C18_StoredItemsWellFormed ==
    /\ \A id \in DOMAIN items : WellFormed(items[id])
    /\ \A id \in DOMAIN session.items : WellFormed(session.items[id])

\* an update that nulls the purchase_date of a stored item was refused; an
\* imported row is in the table too
C18_NullingUpdateRefused ==
    /\ last.op = "update" /\ last.exc = "SQLAlchemyError"
    /\ last.data = ("purchase_date" :> NoDate)
    /\ \E id \in DOMAIN items : last.ids = {id}
    /\ \E id \in DOMAIN items : items[id].name = NameB

\* the sum of the prices of some rows of a table
RECURSIVE PriceSum(_, _)
PriceSum(store, ids) ==
    IF ids = {} THEN 0
    ELSE LET i == CHOOSE j \in ids : \A k \in ids : j <= k
         IN  store[i].price + PriceSum(store, ids \ {i})

Unsold(store) == {i \in DOMAIN store : store[i].sale_date = NoDate}

\* C19: get_statistics returns total_items = number of stored items, sold_items =
\* number of items with a sale_date, in_stock_items = total_items - sold_items =
\* number of items without a sale_date, and total_value = sum of price over the
\* items without a sale_date; on an empty table every statistic is 0.
C19_Statistics ==
    (read_res # <<>> /\ read_res.op = "get_statistics")
        => /\ read_res.result.total_items = Cardinality(DOMAIN read_res.store)
           /\ read_res.result.sold_items
                  = Cardinality(DOMAIN read_res.store \ Unsold(read_res.store))
           /\ read_res.result.in_stock_items
                  = read_res.result.total_items - read_res.result.sold_items
           /\ read_res.result.in_stock_items = Cardinality(Unsold(read_res.store))
           /\ read_res.result.total_value
                  = PriceSum(read_res.store, Unsold(read_res.store))
           /\ read_res.store = <<>> =>
                  read_res.result = [total_items |-> 0, sold_items |-> 0,
                                     in_stock_items |-> 0, total_value |-> 0,
                                     average_price |-> <<0, 1>>, max_price |-> 0,
                                     min_price |-> 0]

\* one unit sold and one in stock: the total value is the price of the unit in stock
C19_OneSoldOneInStock ==
    /\ read_res # <<>> /\ read_res.op = "get_statistics"
    /\ read_res.result.total_items = 2
    /\ read_res.result.sold_items = 1
    /\ read_res.result.total_value = 2
    /\ \E i \in DOMAIN read_res.store :
           read_res.store[i].sale_date # NoDate /\ read_res.store[i].price = 1

\* the required fields that no cell of the header row is bound to
Unbound(headers) ==
    {c \in ImportRequired :
        \A i \in 1..Len(headers) : NormHeader(headers[i]) \notin COLUMN_MAPPING(c)}

\* C20: when the header row leaves a required field unbound, the import fails with
\* a missing-columns error that lists exactly the unbound required fields, before
\* any row is parsed; no row is stored and no error report is written.
C20_MissingColumns ==
    (/\ last.op = "cli_import_csv" /\ import_res.has_header
     /\ Unbound(import_res.rows[1]) # {})
        => /\ import_res.exc = "ValueError: missing columns"
           /\ import_res.missing = Unbound(import_res.rows[1])
           /\ import_res.rows_parsed = 0
           /\ import_res.result = <<>>
           /\ ~ import_res.error_file
           /\ session.items = items

\* a file with a clean row and a bad row under a header without a vendor column
C20_VendorColumnMissing ==
    /\ last.op = "cli_import_csv" /\ import_res.has_header
    /\ Len(import_res.rows) = 3
    /\ import_res.missing = {"vendor"}
    /\ last.exc = "ValueError: missing columns"

\* the error entries of the last import that carry the file's row number k
EntriesOfRow(k) ==
    {e \in DOMAIN import_res.result.errors : import_res.result.errors[e].row = k}

\* C21: every row that fails parsing or validation has exactly one error entry, with
\* its row number in the file (header = row 1), its raw data and a message naming
\* the offending field; the error report path is present exactly when error_count
\* > 0; three rows of which one has an empty price give success_count 2 and
\* error_count 1.
C21_ErrorEntries ==
    (last.op = "cli_import_csv" /\ import_res.has_header /\ import_res.exc = "none")
        => /\ \A k \in (2..Len(import_res.rows)) \ CleanRows(import_res.rows) :
                  /\ Cardinality(EntriesOfRow(k)) = 1
                  /\ \A e \in EntriesOfRow(k) :
                         /\ import_res.result.errors[e].data = import_res.rows[k]
                         /\ import_res.result.errors[e].error[1] \in Range(ColumnOrder)
           /\ (import_res.result.error_file_path # "None")
                  <=> (import_res.result.error_count > 0)
           /\ (import_res.rows = <<Header6, GoodRow, NoPriceRow, GoodRowB>>
                  /\ import_res.db_ok)
                  => /\ import_res.result.success_count = 2
                     /\ import_res.result.error_count = 1
                     /\ import_res.result.errors[1].row = 3
                     /\ import_res.result.errors[1].error[1] = "price"

C22_DeletedItemAbsent ==
    /\ last.op = "get_by_id" /\ last.exc = "HTTPException"
    /\ \E id \in last.ids : id <= next_id

\* the rows of a result, looked up in the table the search ran on
ResultRow(k) == search_res.store[search_res.result.items[k]]

\* C23: the items of a search result are ordered by the selected sort key,
\* non-increasing when sort_desc is true and non-decreasing otherwise, created_at
\* descending being the default; a sort_by outside the whitelist is rejected when the
\* query is built; every sort key a front-end can select, the column headers of the
\* item list included, lies in the whitelist.
C23_SortedByWhitelistedKey ==
    /\ SearchQuery.sort_by = "created_at" /\ SearchQuery.sort_desc
    /\ gui.sort_column \in SortWhitelist
    /\ search_res # <<>> =>
          /\ search_res.query.sort_by \notin SortWhitelist
                => search_res.exc = "ValidationError"
          /\ search_res.exc = "none" =>
                \A a, b \in 1..Len(search_res.result.items) : a < b =>
                    IF search_res.query.sort_desc
                    THEN KeyLeq(search_res.query.sort_by,
                                ResultRow(b)[search_res.query.sort_by],
                                ResultRow(a)[search_res.query.sort_by])
                    ELSE KeyLeq(search_res.query.sort_by,
                                ResultRow(a)[search_res.query.sort_by],
                                ResultRow(b)[search_res.query.sort_by])

\* the free-text columns of an item
FreeText == {"location", "model_name", "name", "vendor", "size", "notes", "barcode"}

\* C24: every free-text field of a stored item (location, model_name, name, vendor,
\* size, notes, barcode) has no leading or trailing whitespace, and an optional
\* free-text field whose input is empty or whitespace-only is stored as absent, never
\* as an empty or blank string.
C24_FreeTextNormalised ==
    \A id \in DOMAIN items : \A f \in FreeText :
        items[id][f] # None => (strip(items[id][f]) = items[id][f] /\ items[id][f] # <<>>)

\* the options of a `cli update` call that were given a value
Given(opts) ==
    {f \in DOMAIN opts :
        IF f \in {"purchase_date", "sale_date"} THEN opts[f] # NoDate
        ELSE IF f = "price" THEN opts[f] # NoPrice
        ELSE opts[f] # None}

\* the update that carries the given options and nothing else
GivenOnly(opts) == InventoryItemUpdate([f \in Given(opts) |-> opts[f]])

\* C25: update(id, partial) changes exactly the fields the caller supplied a value
\* for and leaves every other field of the item and every other item unchanged; a
\* CLI update that passes only some options does what the update of those options
\* does, and does not clear or alter the fields whose options were omitted.
C25_UpdateIsPartial ==
    [][/\ (last'.op = "update" /\ last'.exc = "none")
           => \A id \in DOMAIN items :
                 IF id \in last'.ids
                 THEN \A f \in DOMAIN items[id] :
                         items'[id][f] = IF f \in DOMAIN last'.data
                                         THEN InventoryItemUpdate(last'.data).data[f]
                                         ELSE items[id][f]
                 ELSE items'[id] = items[id]
       /\ last'.op = "cli_update"
           => \A id \in DOMAIN items :
                 IF id \in last'.ids /\ GivenOnly(last'.data).ok
                 THEN /\ \A f \in DOMAIN last'.data \ Given(last'.data) :
                            session'.items[id][f] = items[id][f]
                      /\ session'.items =
                            update(Session(TRUE), id, GivenOnly(last'.data).data).S.items
                 ELSE session'.items[id] = items[id]]_vars

\* the caller's encoding, then cp949, euc-kr and latin-1
TryOrder(encoding) == <<encoding, "cp949", "euc-kr", "latin-1">>

\* the positions in TryOrder of the encodings that decode the bytes
Decoding(arg) == {k \in 1..4 : DecodeOk(TryOrder(arg.encoding)[k], arg.bytes)}

FirstDecoding(arg) == CHOOSE k \in Decoding(arg) : \A j \in Decoding(arg) : k <= j

RowsUnder(arg, k) == CsvRows(Decode(TryOrder(arg.encoding)[k], arg.bytes))

\* C26: reading the import source tries the caller's encoding first and, only after
\* a decode failure, cp949, euc-kr and latin-1 in that order, and uses the rows of
\* the first encoding that decodes; it fails with an encoding error exactly when
\* every encoding fails, and with an empty-input error whenever the decoded source
\* has no rows, on the primary path and on the fallback path alike.
C26_FirstDecodingEncoding ==
    read_res.op = "_read_csv_file" =>
        /\ read_res.result.exc = "ValueError(encoding)" <=> Decoding(read_res.arg) = {}
        /\ Decoding(read_res.arg) # {} =>
              /\ read_res.result.encoding =
                    TryOrder(read_res.arg.encoding)[FirstDecoding(read_res.arg)]
              /\ IF RowsUnder(read_res.arg, FirstDecoding(read_res.arg)) = <<>>
                 THEN read_res.result.exc = "ValueError(empty)"
                 ELSE /\ read_res.result.exc = "none"
                      /\ IF read_res.arg.has_header
                         THEN /\ read_res.result.headers =
                                   RowsUnder(read_res.arg, FirstDecoding(read_res.arg))[1]
                              /\ read_res.result.data_rows =
                                   Tail(RowsUnder(read_res.arg, FirstDecoding(read_res.arg)))
                         ELSE read_res.result.data_rows =
                                   RowsUnder(read_res.arg, FirstDecoding(read_res.arg))

\* a file in EUC-KR that utf-8 cannot decode was read as cp949, header and data row
C26_ReadAsCp949 ==
    /\ read_res.op = "_read_csv_file"
    /\ read_res.arg.encoding = "utf-8" /\ read_res.arg.has_header
    /\ read_res.result.encoding = "cp949" /\ read_res.result.exc = "none"
    /\ read_res.result.headers = <<<<"hangul(K)">>>>
    /\ Len(read_res.result.data_rows) = 1

\* an empty file: the empty-input error
C26_EmptyFile ==
    /\ read_res.op = "_read_csv_file"
    /\ read_res.arg.bytes = <<>> /\ read_res.result.exc = "ValueError(empty)"

\* C27: sell_item(id, d) on an existing unsold item with d earlier than the item's
\* purchase_date does not return success: it raises a validation error (it does not
\* return False), and the item's sale_date stays absent.
C27_SellBeforePurchaseRaises ==
    [][\A id \in Ids :
          (SellOfUnsold(id) /\ last'.date < items[id].purchase_date)
            => /\ last'.exc = "ValueError"
               /\ items'[id].sale_date = NoDate
               /\ session'.items[id].sale_date = NoDate]_vars

\* a sale dated before the purchase was refused with ValueError; the item is unsold
C27_SaleBeforePurchaseRefused ==
    /\ last.op = "sell_item" /\ last.exc = "ValueError"
    /\ \E id \in DOMAIN items :
           /\ last.ids = {id}
           /\ last.date < items[id].purchase_date
           /\ items[id].sale_date = NoDate

\* the thread's sell_item call returned success and its session was committed
Succeeded(t) == threads[t].pc = "done" /\ threads[t].exc = "none" /\ threads[t].ret

\* C28: when two sell_item calls for the same unsold item run concurrently, each in
\* its own session, at most one of them returns success, and the final sale_date is
\* the date of the call that returned success.
C28_AtMostOneSaleSucceeds ==
    \A t \in Threads :
        Succeeded(t) =>
            /\ \A o \in Threads \ {t} :
                   ~ (Succeeded(o) /\ threads[o].item_id = threads[t].item_id)
            /\ items[threads[t].item_id].sale_date = threads[t].sale_date

\* the samples of an initialization whose barcode step did not raise
Unfailed(samples, faults) ==
    {k \in 1..Len(samples) :
        /\ InventoryItemCreate(samples[k]).ok
        /\ (faults[k] = "none" \/ ~ Truthy(samples[k].barcode))}

\* C29: create_with_barcode_update is atomic: in every committed state, the new item
\* and the BarcodeRecord upsert for its barcode are both present or both absent; if
\* the barcode step raises after the item was flushed, the item is not persisted,
\* also when the caller catches the exception per item inside one session and commits
\* afterwards, as the database initialization does.
C29_ItemAndBarcodeRecordTogether ==
    /\ \A id \in DOMAIN items :
           Truthy(items[id].barcode) => FirstBarcodeRow(barcodes, items[id].barcode, 1) # 0
    /\ last.op = "initialize_database"
           => Cardinality(last.ids) <= Cardinality(Unfailed(last.data, last.faults))

\* C30: when import_from_csv is called with has_header = False, no column mapping is
\* built, so every data row is recorded as a row error with row numbers starting at
\* 1, success_count is 0, error_count equals the number of rows and nothing is
\* persisted, whatever the rows contain.
C30_HeaderlessImportStoresNothing ==
    (last.op = "cli_import_csv" /\ ~ import_res.has_header)
        => /\ import_res.exc = "none"
           /\ import_res.result.success_count = 0
           /\ import_res.result.error_count = Len(import_res.rows)
           /\ Len(import_res.result.errors) = Len(import_res.rows)
           /\ \A k \in 1..Len(import_res.rows) :
                  /\ import_res.result.errors[k].row = k
                  /\ import_res.result.errors[k].data = import_res.rows[k]
           /\ import_res.parsed = <<>>
           /\ session.items = items /\ items = <<>>

\* a file of a header and two clean rows was imported as headerless into a working
\* database: three row errors, numbered from 1
C30_CleanRowsRefused ==
    /\ last.op = "cli_import_csv" /\ ~ import_res.has_header /\ import_res.db_ok
    /\ import_res.rows = <<Header6, GoodRow, GoodRowB>>
    /\ import_res.result.error_count = 3
    /\ import_res.result.errors[1].row = 1
    /\ import_res.result.errors[3].data = GoodRowB

====
